---- MODULE Spec2Model ----
(***************************************************************************)
(* Loan-contract analysis: the contract parser (src/src/contract_parser.py)*)
(* and the financial calculator (src/src/financial_calculator.py).         *)
(*                                                                         *)
(* Number representation.  Python floats are modelled as fixed-point       *)
(* integers:                                                               *)
(*   - money before rounding: ten-thousandths of a currency unit (Unidad   *)
(*     per unit), every division truncated to that grid;                   *)
(*   - money after round(x, 2): whole cents;                               *)
(*   - rates and percentages: hundredths of a percentage point (240% is    *)
(*     24000).                                                             *)
(* The periodic rate tasa/100/12 is kept as the exact fraction             *)
(* TasaNum/TasaDen, and the annuity factor (1+i)^n as an exact quotient of *)
(* integer powers, so the only inexactness is the final truncation to the  *)
(* money grid.  The rates drawn are those whose reduced fraction keeps the *)
(* powers inside TLC's integers.                                           *)
(***************************************************************************)
EXTENDS Integers, Sequences, FiniteSets, TLC

VARIABLES pc, reloj, fallo_lectura, texto_leido, contrato, resultado,
          excepcion, market_rates, tir_origen, devuelto, previo

vars ==
    <<pc, reloj, fallo_lectura, texto_leido, contrato, resultado, excepcion,
      market_rates, tir_origen, devuelto, previo>>

\* ---------------------------------------------------------------- bounds
MaxPlazo == 4
MaxGracia == 3
MaxDia == 1
MaxTexto == 3
MaxPlazoLargo == 42

\* ------------------------------------------------------------ arithmetic
Unidad == 100 * 100
PorCiento == 100 * 100
MesesPorCiento == 12 * PorCiento

Max(a, b) == IF a >= b THEN a ELSE b
Min(a, b) == IF a <= b THEN a ELSE b
Abs(a) == IF a >= 0 THEN a ELSE 0 - a

RECURSIVE GCD(_, _)
GCD(a, b) == IF b = 0 THEN a ELSE GCD(b, a % b)

RECURSIVE Pow(_, _)
Pow(b, n) == IF n = 0 THEN 1 ELSE b * Pow(b, n - 1)

\* a * b / c as quotient and remainder (a, b >= 0, c > 0), doubling along
\* the bits of b so that no intermediate value exceeds 2 * c + a
RECURSIVE MulDivLargo(_, _, _)
MulDivLargo(a, b, c) ==
    IF b = 0 THEN [q |-> 0, r |-> 0]
    ELSE LET mitad == MulDivLargo(a, b \div 2, c)
             doble == 2 * mitad.r
             resto == (doble % c) + (IF b % 2 = 1 THEN a % c ELSE 0)
         IN  [q |-> 2 * mitad.q + doble \div c
                    + (IF b % 2 = 1 THEN a \div c ELSE 0) + resto \div c,
              r |-> resto % c]

\* floor(a * b / c) for a, b >= 0 and c > 0, without forming a * b
MulDiv(a, b, c) == MulDivLargo(a, b, c).q

\* the remainder of a * b / c
MulMod(a, b, c) == ((a % c) * b) % c

\* round-half-even of num / den to an integer (num >= 0, den > 0)
RedondeoCociente(q, r, den) ==
    IF 2 * r > den THEN q + 1
    ELSE IF 2 * r < den THEN q
    ELSE IF q % 2 = 0 THEN q ELSE q + 1

\* round(x, 2): money on the fine grid to whole cents, ties to even
Round2(x) ==
    IF x >= 0 THEN RedondeoCociente(x \div 100, x % 100, 100)
    ELSE 0 - RedondeoCociente((0 - x) \div 100, (0 - x) % 100, 100)

RECURSIVE SumaCampo(_, _)
SumaCampo(s, campo) ==
    IF s = <<>> THEN 0 ELSE Head(s)[campo] + SumaCampo(Tail(s), campo)

\* a^n - b^n without forming a^n
RECURSIVE DifPotencias(_, _, _)
DifPotencias(a, b, n) ==
    IF n = 0 THEN 0
    ELSE a * DifPotencias(a, b, n - 1) + (a - b) * Pow(b, n - 1)

\* the nominal rates whose annuity powers stay inside TLC's integers for
\* every term up to the bounds: 0%, 240%, 300% and 600% a year
Tasas == {0, 240 * 100, 300 * 100, 600 * 100}

\* tasa_mensual = tasa_nominal / 100 / 12 as a reduced fraction
TasaNum(tasa) == tasa \div GCD(tasa, MesesPorCiento)
TasaDen(tasa) == MesesPorCiento \div GCD(tasa, MesesPorCiento)

\* ------------------------------------------------------------ data model
\* An Optional field is <<>> for None and <<v>> for a value v.
Comision(tipo, valor, es_porcentaje) ==
    [tipo |-> tipo, valor |-> valor, es_porcentaje |-> es_porcentaje]

FilaAmortizacion(periodo, fecha, cuota, capital, interes, saldo, mant) ==
    [periodo |-> periodo, fecha |-> fecha, cuota |-> cuota,
     capital |-> capital, interes |-> interes, saldo |-> saldo,
     comision_mantenimiento |-> mant]

\* ContratoParseado(): every field at its dataclass default
ContratoParseado ==
    [prestamista |-> "", prestatario |-> "", tramos |-> <<>>,
     monto_principal |-> 0, moneda |-> "USD", tasa_nominal |-> 0,
     tipo_tasa |-> "fija", plazo_meses |-> 0, frecuencia_pago |-> "mensual",
     indice_referencia |-> <<>>, spread_bps |-> <<>>,
     cap |-> <<>>, floor |-> <<>>,
     periodo_gracia_meses |-> 0, es_bullet |-> FALSE,
     garantias |-> <<>>, tipo_garantia_general |-> "sin_garantia",
     comisiones |-> <<>>, prepago |-> <<>>,
     covenants |-> <<>>, clausulas_incumplimiento |-> <<>>,
     tiene_cross_default |-> FALSE, jurisdiccion |-> "",
     confianza_extraccion |-> 0, advertencias |-> <<>>,
     texto_original |-> <<>>]

\* --------------------------------------------------- amortization engine
\* comision_mant: the rate of the last "mantenimiento" entry, 0 without one
RECURSIVE ComisionMant(_)
ComisionMant(comisiones) ==
    IF comisiones = <<>> THEN 0
    ELSE LET ultimo == comisiones[Len(comisiones)]
         IN  IF ultimo.tipo = "mantenimiento" THEN ultimo.valor
             ELSE ComisionMant(SubSeq(comisiones, 1, Len(comisiones) - 1))

\* interes = saldo * tasa_mensual
Interes(saldo, tasa) == (saldo * TasaNum(tasa)) \div TasaDen(tasa)

\* mantenimiento = saldo * comision_mant, comision_mant = valor / 100
Mantenimiento(saldo, mant) == (saldo * mant) \div PorCiento

\* fecha_base + timedelta(days=30 * i), as a day number
Fecha(hoy, i) == hoy + 30 * i

\* The fixed payment  saldo * (i * (1+i)^n) / ((1+i)^n - 1)  for i > 0 and
\* saldo / n  otherwise; a float division by zero raises.
CuotaFija(saldo, tasa, n) ==
    LET p == TasaNum(tasa)
        q == TasaDen(tasa)
        m == Abs(n)
        factor == Pow(q + p, m) - Pow(q, m)
    IN  IF n = 0 THEN [error |-> "ZeroDivisionError", cuota |-> 0]
        ELSE IF tasa > 0
        THEN IF n > 0
             THEN [error |-> "",
                   cuota |-> MulDiv(saldo, p * Pow(q + p, m), q * factor)]
             ELSE [error |-> "",
                   cuota |-> 0 - MulDiv(saldo, p * Pow(q, m), q * factor)]
        ELSE [error |-> "",
              cuota |-> IF n > 0 THEN saldo \div m ELSE 0 - (saldo \div m)]

\* CicloFrances with the maintenance fee charged inside the payment
RECURSIVE CicloFrancesConMant(_, _, _, _, _, _, _)
CicloFrancesConMant(i, hasta, saldo, cuota, tasa, mant, hoy) ==
    IF i > hasta THEN <<>>
    ELSE LET interes == Interes(saldo, tasa)
             capital == cuota - interes
             saldo_nuevo == Max(0, saldo - capital)
         IN  <<FilaAmortizacion(i, Fecha(hoy, i),
                                Round2(cuota + Mantenimiento(saldo, mant)),
                                Round2(capital), Round2(interes),
                                Round2(saldo_nuevo),
                                Round2(Mantenimiento(saldo, mant)))>>
             \o CicloFrancesConMant(i + 1, hasta, saldo_nuevo, cuota, tasa,
                                    mant, hoy)

\* for i in range(desde, hasta + 1): the annuity rows
RECURSIVE CicloFrances(_, _, _, _, _, _, _)
CicloFrances(i, hasta, saldo, cuota, tasa, mant, hoy) ==
    IF i > hasta THEN <<>>
    ELSE LET interes == Interes(saldo, tasa)
             capital == cuota - interes
             saldo_nuevo == Max(0, saldo - capital)
         IN  <<FilaAmortizacion(i, Fecha(hoy, i), Round2(cuota),
                                Round2(capital), Round2(interes),
                                Round2(saldo_nuevo),
                                Round2(Mantenimiento(saldo, mant)))>>
             \o CicloFrances(i + 1, hasta, saldo_nuevo, cuota, tasa, mant, hoy)

\* CicloBullet repaying the capital in the first period instead of the last
RECURSIVE CicloBulletAlInicio(_, _, _, _, _, _)
CicloBulletAlInicio(i, hasta, saldo, tasa, mant, hoy) ==
    IF i > hasta THEN <<>>
    ELSE LET interes == Interes(saldo, tasa)
             capital == IF i = 1 THEN saldo ELSE 0
             cuota == IF i = 1 THEN capital + interes ELSE interes
             saldo_nuevo == IF i = 1 THEN 0 ELSE saldo
         IN  <<FilaAmortizacion(i, Fecha(hoy, i), Round2(cuota),
                                Round2(capital), Round2(interes),
                                Round2(saldo_nuevo),
                                Round2(Mantenimiento(saldo, mant)))>>
             \o CicloBulletAlInicio(i + 1, hasta, saldo_nuevo, tasa, mant, hoy)

\* for i in range(desde, hasta + 1): interest-only rows, capital at i = hasta
RECURSIVE CicloBullet(_, _, _, _, _, _)
CicloBullet(i, hasta, saldo, tasa, mant, hoy) ==
    IF i > hasta THEN <<>>
    ELSE LET interes == Interes(saldo, tasa)
             capital == IF i = hasta THEN saldo ELSE 0
             cuota == IF i = hasta THEN capital + interes ELSE interes
             saldo_nuevo == IF i = hasta THEN 0 ELSE saldo
         IN  <<FilaAmortizacion(i, Fecha(hoy, i), Round2(cuota),
                                Round2(capital), Round2(interes),
                                Round2(saldo_nuevo),
                                Round2(Mantenimiento(saldo, mant)))>>
             \o CicloBullet(i + 1, hasta, saldo_nuevo, tasa, mant, hoy)

\* for i in range(1, n_gracia + 1): interest-only rows, balance untouched
RECURSIVE CicloGracia(_, _, _, _, _, _)
CicloGracia(i, hasta, saldo, tasa, mant, hoy) ==
    IF i > hasta THEN <<>>
    ELSE <<FilaAmortizacion(i, Fecha(hoy, i), Round2(Interes(saldo, tasa)),
                            0, Round2(Interes(saldo, tasa)), Round2(saldo),
                            Round2(Mantenimiento(saldo, mant)))>>
         \o CicloGracia(i + 1, hasta, saldo, tasa, mant, hoy)

_amortizacion_francesa(c, hoy) ==
    LET n == c.plazo_meses
        cf == CuotaFija(c.monto_principal, c.tasa_nominal, n)
    IN  IF cf.error # "" THEN [error |-> cf.error, tabla |-> <<>>]
        ELSE [error |-> "",
              tabla |-> CicloFrances(1, n, c.monto_principal, cf.cuota,
                                     c.tasa_nominal,
                                     ComisionMant(c.comisiones), hoy)]

_amortizacion_bullet(c, hoy) ==
    [error |-> "",
     tabla |-> CicloBullet(1, c.plazo_meses, c.monto_principal,
                           c.tasa_nominal, ComisionMant(c.comisiones), hoy)]

\* _amortizacion_con_gracia spreading the payment over the whole term
AmortizacionConGraciaPlazoTotal(c, hoy) ==
    LET n_total == c.plazo_meses
        n_gracia == c.periodo_gracia_meses
        mant == ComisionMant(c.comisiones)
        gracia == CicloGracia(1, n_gracia, c.monto_principal,
                              c.tasa_nominal, mant, hoy)
        cf == CuotaFija(c.monto_principal, c.tasa_nominal, n_total)
    IN  IF c.es_bullet
        THEN [error |-> "",
              tabla |-> gracia \o CicloBullet(n_gracia + 1, n_total,
                                              c.monto_principal,
                                              c.tasa_nominal, mant, hoy)]
        ELSE IF n_total = n_gracia \/ cf.error # ""
        THEN [error |-> "ZeroDivisionError", tabla |-> <<>>]
        ELSE [error |-> "",
              tabla |-> gracia \o CicloFrances(n_gracia + 1, n_total,
                                               c.monto_principal, cf.cuota,
                                               c.tasa_nominal, mant, hoy)]

_amortizacion_con_gracia(c, hoy) ==
    LET n_total == c.plazo_meses
        n_gracia == c.periodo_gracia_meses
        n_amortizacion == n_total - n_gracia
        mant == ComisionMant(c.comisiones)
        gracia == CicloGracia(1, n_gracia, c.monto_principal,
                              c.tasa_nominal, mant, hoy)
        cf == CuotaFija(c.monto_principal, c.tasa_nominal, n_amortizacion)
    IN  IF c.es_bullet
        THEN [error |-> "",
              tabla |-> gracia \o CicloBullet(n_gracia + 1, n_total,
                                              c.monto_principal,
                                              c.tasa_nominal, mant, hoy)]
        ELSE IF cf.error # "" THEN [error |-> cf.error, tabla |-> <<>>]
        ELSE [error |-> "",
              tabla |-> gracia \o CicloFrances(n_gracia + 1, n_total,
                                               c.monto_principal, cf.cuota,
                                               c.tasa_nominal, mant, hoy)]

\* _generar_tabla_amortizacion that never looks at es_bullet
GenerarTablaSinBullet(c, hoy) ==
    IF c.periodo_gracia_meses > 0 THEN _amortizacion_con_gracia(c, hoy)
    ELSE _amortizacion_francesa(c, hoy)

_generar_tabla_amortizacion(c, hoy) ==
    IF c.es_bullet THEN _amortizacion_bullet(c, hoy)
    ELSE IF c.periodo_gracia_meses > 0 THEN _amortizacion_con_gracia(c, hoy)
    ELSE _amortizacion_francesa(c, hoy)

\* ------------------------------------------------- rate & cost calculator
RECURSIVE SumaComisiones(_, _, _)
SumaComisiones(comisiones, monto, tabla) ==
    IF comisiones = <<>> THEN 0
    ELSE LET comision == Head(comisiones)
             cargo == IF comision.tipo = "apertura"
                      THEN IF comision.es_porcentaje
                           THEN (monto * comision.valor) \div PorCiento
                           ELSE comision.valor
                      ELSE IF comision.tipo = "seguro" THEN comision.valor
                      ELSE IF comision.tipo = "mantenimiento"
                      THEN 100 * SumaCampo(tabla, "comision_mantenimiento")
                      ELSE 0
         IN  cargo + SumaComisiones(Tail(comisiones), monto, tabla)

\* the fee total, in cents
_calcular_total_comisiones(c, tabla) ==
    Round2(SumaComisiones(c.comisiones, c.monto_principal, tabla))

\* CAT = ((total_pagado / monto - 1) / plazo_anos) * 100, rounded to two
\* decimals of a percentage point; 0 when the term or the principal is 0.
\* total_intereses and total_comisiones are in cents.
_calcular_cat(c, total_intereses, total_comisiones) ==
    IF c.plazo_meses = 0 \/ c.monto_principal = 0 THEN 0
    ELSE LET num == MesesPorCiento
             den == (c.monto_principal \div 100) * c.plazo_meses
             g == GCD(num, den)
             costo == total_intereses + total_comisiones
         IN  RedondeoCociente(MulDiv(costo, num \div g, den \div g),
                              MulMod(costo, num \div g, den \div g),
                              den \div g)

\* periodos_por_ano.get(contrato.frecuencia_pago, 12)
PeriodosPorAno(frecuencia) ==
    CASE frecuencia = "mensual" -> 12
      [] frecuencia = "trimestral" -> 4
      [] frecuencia = "semestral" -> 2
      [] frecuencia = "anual" -> 1
      [] frecuencia = "bullet" -> 1
      [] OTHER -> 12

\* ((1 + r / n)^n - 1) * 100 for the rate tasa compounded n times a year,
\* rounded to two decimals of a percentage point (tasa >= 0)
TasaEfectiva(tasa, n) ==
    LET g == GCD(tasa, PorCiento * n)
        p == tasa \div g
        q == (PorCiento * n) \div g
        cociente == MulDivLargo(DifPotencias(q + p, q, n), PorCiento,
                                Pow(q, n))
    IN  RedondeoCociente(cociente.q, cociente.r, Pow(q, n))

_calcular_tea(c) ==
    TasaEfectiva(c.tasa_nominal, PeriodosPorAno(c.frecuencia_pago))

\* comision_inicial: the apertura and seguro entries, a percentage entry
\* taken on the principal
RECURSIVE ComisionInicial(_, _)
ComisionInicial(comisiones, monto) ==
    IF comisiones = <<>> THEN 0
    ELSE LET com == Head(comisiones)
             cargo == IF com.tipo \in {"apertura", "seguro"}
                      THEN IF com.es_porcentaje
                           THEN (monto * com.valor) \div PorCiento
                           ELSE com.valor
                      ELSE 0
         IN  cargo + ComisionInicial(Tail(comisiones), monto)

\* the payments fila.cuota + fila.comision_mantenimiento of rows 1..k,
\* carried to period Len(tabla) at the periodic rate (a - q) / q and
\* scaled by q^k
RECURSIVE FuturoDePagos(_, _, _, _)
FuturoDePagos(tabla, k, q, a) ==
    IF k = 0 THEN 0
    ELSE FuturoDePagos(tabla, k - 1, q, a) * a
         + (tabla[k].cuota + tabla[k].comision_mantenimiento) * Pow(q, k)

\* the net present value of flujos is zero at the monthly rate tasa / 12:
\* the payments discounted at it are worth the disbursement (fine grid)
EsRaiz(desembolso, tabla, tasa) ==
    LET q == TasaDen(tasa)
        a == TasaNum(tasa) + TasaDen(tasa)
        valor == MulDivLargo(FuturoDePagos(tabla, Len(tabla), q, a), 100,
                             Pow(a, Len(tabla)))
    IN  valor.r = 0 /\ valor.q = desembolso

\* np.irr(flujos): what the solver can hand back.  It returns the rate at
\* which the flows' net present value is zero; the model follows that
\* branch for the flows whose root is one of the rates it can represent.
\* The call raises where numpy has no irr (numpy >= 1.20), which is the
\* outcome <<>>.
SalidasIRR(c, tabla) ==
    {<<>>}
    \cup {<<tasa>> : tasa \in
              {t \in Tasas :
                  /\ tabla # <<>>
                  /\ c.monto_principal
                         > ComisionInicial(c.comisiones, c.monto_principal)
                  /\ EsRaiz(c.monto_principal
                               - ComisionInicial(c.comisiones,
                                                 c.monto_principal),
                            tabla, t)}}

\* tir_anual = ((1 + tir_mensual)^12 - 1) * 100 when the solver returned,
\* the effective annual rate when it raised
_calcular_tir(c, tabla, irr) ==
    IF irr = <<>> THEN _calcular_tea(c) ELSE TasaEfectiva(irr[1], 12)

\* ------------------------------------------------------ market comparison
\* A JSON object is a function from its keys; {} is the empty function.
MercadoVacio == <<>>

\* d[clave] inside the try: <<>> once a KeyError has been raised
Subclave(d, clave) ==
    IF d = <<>> THEN <<>>
    ELSE IF clave \in DOMAIN d[1] THEN <<d[1][clave]>>
    ELSE <<>>

TipoEmpresa(monto) ==
    IF monto \div Unidad < 500000 THEN "pyme"
    ELSE IF monto \div Unidad < 5000000 THEN "mediana"
    ELSE "grande"

TipoPlazo(plazo) ==
    IF plazo <= 12 THEN "corto_plazo"
    ELSE IF plazo <= 36 THEN "mediano_plazo"
    ELSE "largo_plazo"

\* Percentil interpolating whatever the rate's position
PercentilSinTopes(tea, tasa_min, tasa_max) ==
    IF tasa_max - tasa_min = 0
    THEN [error |-> "ZeroDivisionError", percentil |-> 0]
    ELSE [error |-> "",
          percentil |->
              IF (tea - tasa_min) * (tasa_max - tasa_min) >= 0
              THEN 10 + (Abs(tea - tasa_min) * 80)
                            \div Abs(tasa_max - tasa_min)
              ELSE 10 - (Abs(tea - tasa_min) * 80)
                            \div Abs(tasa_max - tasa_min)]

\* 10 at or below min, 90 at or above max, else
\* int(10 + (posicion / rango) * 80); a zero rango raises
Percentil(tea, tasa_min, tasa_max) ==
    IF tea <= tasa_min THEN [error |-> "", percentil |-> 10]
    ELSE IF tea >= tasa_max THEN [error |-> "", percentil |-> 90]
    ELSE IF tasa_max - tasa_min = 0
    THEN [error |-> "ZeroDivisionError", percentil |-> 0]
    ELSE [error |-> "",
          percentil |-> 10 + ((tea - tasa_min) * 80)
                                  \div (tasa_max - tasa_min)]

Evaluacion(diferencia) ==
    IF diferencia < 0 - 100
    THEN "Muy competitivo - Condiciones favorables"
    ELSE IF diferencia < 50
    THEN "Competitivo - En linea con el mercado"
    ELSE IF diferencia < 200
    THEN "Ligeramente elevado - Considerar negociar"
    ELSE "Elevado - Revisar alternativas de financiamiento"

SinDatos(evaluacion) ==
    [error |-> "", diferencia |-> 0, percentil |-> 50,
     evaluacion |-> evaluacion]

\* ComparacionCon letting a missing key's KeyError leave the method
ComparacionSinCaptura(tea, promedio, tasa_max, tasa_min, percentil) ==
    IF promedio = <<>> \/ tasa_max = <<>> \/ tasa_min = <<>>
    THEN [error |-> "KeyError", diferencia |-> 0, percentil |-> 0,
          evaluacion |-> ""]
    ELSE [error |-> percentil.error,
          diferencia |-> tea - promedio[1],
          percentil |-> percentil.percentil,
          evaluacion |-> Evaluacion(tea - promedio[1])]

\* the comparison once the band has been looked up
ComparacionCon(tea, promedio, tasa_max, tasa_min, percentil) ==
    IF promedio = <<>> \/ tasa_max = <<>> \/ tasa_min = <<>>
    THEN SinDatos("Sin datos de mercado para este perfil")
    ELSE [error |-> percentil.error,
          diferencia |-> tea - promedio[1],
          percentil |-> percentil.percentil,
          evaluacion |-> Evaluacion(tea - promedio[1])]

\* the band's three entries, each <<>> when a key on the way is missing
EntradasDe(tasas_ref, tea) ==
    ComparacionCon(tea, Subclave(tasas_ref, "promedio"),
                   Subclave(tasas_ref, "max"), Subclave(tasas_ref, "min"),
                   IF Subclave(tasas_ref, "max") = <<>>
                      \/ Subclave(tasas_ref, "min") = <<>>
                   THEN [error |-> "", percentil |-> 50]
                   ELSE Percentil(tea, Subclave(tasas_ref, "min")[1],
                                  Subclave(tasas_ref, "max")[1]))

_comparar_con_mercado(tasas_mercado, c, tea) ==
    IF DOMAIN tasas_mercado = {}
    THEN SinDatos("Sin datos de mercado disponibles")
    ELSE EntradasDe(
             Subclave(Subclave(Subclave(Subclave(<<tasas_mercado>>,
                                                 "tasas_referencia"),
                                        "por_tipo_empresa"),
                               TipoEmpresa(c.monto_principal)),
                      TipoPlazo(c.plazo_meses)),
             tea)

\* ---------------------------------------------------- sensitivity analysis
\* the scenario shifts -1.0, -0.5, 0, 0.5, 1.0, 2.0 percentage points
Escenarios == <<0 - 100, 0 - 50, 0, 50, 100, 200>>

\* nueva_tasa: "if contrato.cap:" and "if contrato.floor:" are false for
\* None and for 0.0
NuevaTasa(tasa_base, cambio, cap, floor) ==
    LET topada == IF cap # <<>> /\ cap[1] # 0
                  THEN Min(tasa_base + cambio, cap[1])
                  ELSE tasa_base + cambio
    IN  IF floor # <<>> /\ floor[1] # 0 THEN Max(topada, floor[1])
        ELSE topada

\* contrato_modificado: a fresh ContratoParseado() given seven fields of
\* the contract, the fee list being the contract's own list object
ContratoModificado(c, nueva_tasa) ==
    [ContratoParseado EXCEPT
        !.monto_principal = c.monto_principal,
        !.tasa_nominal = nueva_tasa,
        !.plazo_meses = c.plazo_meses,
        !.frecuencia_pago = c.frecuencia_pago,
        !.periodo_gracia_meses = c.periodo_gracia_meses,
        !.es_bullet = c.es_bullet,
        !.comisiones = c.comisiones]

\* num / den to the nearest integer, ties to even (den > 0, any sign)
RedondeoRacional(num, den) ==
    RedondeoCociente(num \div den, num % den, den)

\* one entry of resultados; base is the schedule of the contract itself
ResultadoEscenario(cambio, nueva_tasa, tabla, base) ==
    [cambio_tasa |-> cambio,
     tasa_resultante |-> nueva_tasa,
     cuota_promedio |-> IF tabla = <<>> THEN 0
                        ELSE RedondeoRacional(SumaCampo(tabla, "cuota"),
                                              Len(tabla)),
     total_intereses |-> SumaCampo(tabla, "interes"),
     impacto_vs_base |-> SumaCampo(tabla, "interes")
                         - SumaCampo(base, "interes")]

RECURSIVE EscenariosDe(_, _, _, _)
EscenariosDe(c, cambios, base, hoy) ==
    IF cambios = <<>> THEN <<>>
    ELSE <<ResultadoEscenario(
               Head(cambios),
               NuevaTasa(c.tasa_nominal, Head(cambios), c.cap, c.floor),
               _generar_tabla_amortizacion(
                   ContratoModificado(
                       c, NuevaTasa(c.tasa_nominal, Head(cambios), c.cap,
                                    c.floor)),
                   hoy).tabla,
               base)>>
         \o EscenariosDe(c, Tail(cambios), base, hoy)

\* the dictionary returned for a variable-rate contract
Sensibilidad(c, base, hoy) ==
    IF base.error # "" THEN [error |-> base.error, valor |-> <<>>]
    ELSE [error |-> "",
          valor |-> <<[escenarios |->
                           EscenariosDe(c, Escenarios, base.tabla, hoy),
                       tiene_cap |-> c.cap # <<>>,
                       tiene_floor |-> c.floor # <<>>,
                       cap |-> c.cap,
                       floor |-> c.floor,
                       indice_referencia |-> c.indice_referencia]>>]

\* None for a contract that is not variable-rate.  A schedule raises for
\* the scenario contracts exactly when it raises for the contract (the
\* division by zero depends on the term and the grace period alone).
_analisis_sensibilidad(c, hoy) ==
    IF c.tipo_tasa # "variable" THEN [error |-> "", valor |-> <<>>]
    ELSE Sensibilidad(c, _generar_tabla_amortizacion(c, hoy), hoy)

\* ContratoTras with the scenario fields written onto the contract itself
ContratoTrasSinCopia(c, modificado) == modificado

\* the caller's contract once contrato_modificado has been filled in:
\* contrato_modificado is a new object, of which only the fee list is the
\* contract's own
ContratoTras(c, modificado) == [c EXCEPT !.comisiones = modificado.comisiones]

\* the caller's contract after _analisis_sensibilidad(contrato)
ContratoTrasSensibilidad(c) ==
    IF c.tipo_tasa # "variable" THEN c
    ELSE ContratoTras(c, ContratoModificado(
                             c, NuevaTasa(c.tasa_nominal,
                                          Escenarios[Len(Escenarios)],
                                          c.cap, c.floor)))

\* ------------------------------------------------- prepayment simulation
\* An unrounded amount on the fine grid: ent + num / den, 0 <= num < den.
Mixto(num, den) == [ent |-> num \div den, num |-> num % den, den |-> den]

MixtoMasEntero(m, entero) == [m EXCEPT !.ent = @ + entero]

\* a - b, on the least common denominator
RestaMixto(a, b) ==
    LET comun == (a.den \div GCD(a.den, b.den)) * b.den
        num == a.num * (comun \div a.den) - b.num * (comun \div b.den)
    IN  [ent |-> a.ent - b.ent + num \div comun, num |-> num % comun,
         den |-> comun]

\* round(x, 2) of a Mixto, in cents
Round2Mixto(m) ==
    RedondeoCociente(m.ent \div 100, (m.ent % 100) * m.den + m.num,
                     100 * m.den)

EsPositivo(m) == m.ent > 0 \/ (m.ent = 0 /\ m.num > 0)

\* Penalizacion charging the penalty only under a clause that permits
\* prepayment
PenalizacionSiPermitido(prepago, mes_prepago, monto_prepago) ==
    IF prepago # <<>>
       /\ prepago[1].permitido
       /\ mes_prepago <= prepago[1].periodo_penalizacion_meses
    THEN Mixto(monto_prepago * prepago[1].penalizacion, PorCiento)
    ELSE Mixto(0, 1)

\* Penalizacion charging the penalty whenever there is a clause
PenalizacionSinVentana(prepago, mes_prepago, monto_prepago) ==
    IF prepago # <<>>
    THEN Mixto(monto_prepago * prepago[1].penalizacion, PorCiento)
    ELSE Mixto(0, 1)

\* penalizacion, unrounded: monto_prepago * penalizacion / 100 inside the
\* clause's window, 0 outside it or without a clause
Penalizacion(prepago, mes_prepago, monto_prepago) ==
    IF prepago # <<>>
       /\ mes_prepago <= prepago[1].periodo_penalizacion_meses
    THEN Mixto(monto_prepago * prepago[1].penalizacion, PorCiento)
    ELSE Mixto(0, 1)

\* saldo_reducido: the target row's balance less the extra amount, 0 past
\* the end of the schedule
SaldoReducido(tabla, mes_prepago, monto_prepago) ==
    IF mes_prepago <= Len(tabla)
    THEN 100 * tabla[mes_prepago].saldo - monto_prepago
    ELSE 0

\* ahorro_intereses, unrounded: total_original - total_con_prepago
\* - saldo_reducido * tasa_mensual * periodos_restantes * 0.5
AhorroIntereses(c, tabla, mes_prepago, saldo_reducido) ==
    MixtoMasEntero(
        Mixto(0 - saldo_reducido * TasaNum(c.tasa_nominal)
                  * (c.plazo_meses - mes_prepago),
              2 * TasaDen(c.tasa_nominal)),
        100 * (SumaCampo(tabla, "interes")
               - SumaCampo(SubSeq(tabla, 1, Min(mes_prepago - 1,
                                                Len(tabla))),
                           "interes")))

\* the dictionary returned, given the two unrounded amounts
EscenarioPrepago(ahorro_intereses, penalizacion) ==
    [ahorro_intereses |-> Round2Mixto(ahorro_intereses),
     penalizacion |-> Round2Mixto(penalizacion),
     beneficio_neto |-> Round2Mixto(RestaMixto(ahorro_intereses,
                                               penalizacion)),
     recomendacion |->
         IF EsPositivo(RestaMixto(ahorro_intereses, penalizacion))
         THEN "Prepago recomendado" ELSE "Evaluar conveniencia"]

\* mes_prepago >= 1
PrepagoSobre(c, t, mes_prepago, monto_prepago) ==
    IF t.error # "" THEN [error |-> t.error, valor |-> <<>>]
    ELSE [error |-> "",
          valor |-> <<EscenarioPrepago(
                        AhorroIntereses(c, t.tabla, mes_prepago,
                                        SaldoReducido(t.tabla, mes_prepago,
                                                      monto_prepago)),
                        Penalizacion(c.prepago, mes_prepago,
                                     monto_prepago))>>]

\* The loop that fills tabla_prepago (the balance less the extra amount,
\* floored at 0, and a payment recomputed for it) builds a list that nothing
\* reads and raises nothing; the returned amounts do not depend on it.
calcular_escenario_prepago(c, mes_prepago, monto_prepago, hoy) ==
    PrepagoSobre(c, _generar_tabla_amortizacion(c, hoy), mes_prepago,
                 monto_prepago)

ResultadoNulo ==
    [tasa_efectiva_anual |-> 0, costo_anual_total |-> 0,
     total_intereses |-> 0, total_comisiones |-> 0,
     costo_total_financiamiento |-> 0, cuota_mensual |-> 0,
     tabla_amortizacion |-> <<>>, tir |-> 0,
     diferencia_vs_mercado |-> 0, percentil_mercado |-> 0,
     evaluacion_mercado |-> "", sensibilidad |-> <<>>]

\* the result with the fees left out of the financing cost
ResultadoSinComisiones(c, tabla, tea, tir, comparacion, sensibilidad) ==
    [ResultadoNulo EXCEPT
        !.tasa_efectiva_anual = tea,
        !.total_intereses = SumaCampo(tabla, "interes"),
        !.total_comisiones = _calcular_total_comisiones(c, tabla),
        !.costo_total_financiamiento =
            c.monto_principal \div 100 + SumaCampo(tabla, "interes"),
        !.cuota_mensual = IF tabla # <<>> THEN tabla[1].cuota ELSE 0,
        !.tabla_amortizacion = tabla,
        !.tir = tir]

\* The ResultadoCalculo that calcular returns: the totals, the CAT, the
\* first payment and the schedule, with the rates, the market comparison
\* and the sensitivity analysis computed for it (valor_presente_neto, which
\* no property reads, is not carried).
ResultadoCalculo(c, tabla, tea, tir, comparacion, sensibilidad) ==
    LET total_intereses == SumaCampo(tabla, "interes")
        total_comisiones == _calcular_total_comisiones(c, tabla)
    IN  [tasa_efectiva_anual |-> tea,
         costo_anual_total |->
             _calcular_cat(c, total_intereses, total_comisiones),
         total_intereses |-> total_intereses,
         total_comisiones |-> total_comisiones,
         costo_total_financiamiento |->
             c.monto_principal \div 100 + total_intereses + total_comisiones,
         cuota_mensual |-> IF tabla # <<>> THEN tabla[1].cuota ELSE 0,
         tabla_amortizacion |-> tabla,
         tir |-> tir,
         diferencia_vs_mercado |-> comparacion.diferencia,
         percentil_mercado |-> comparacion.percentil,
         evaluacion_mercado |-> comparacion.evaluacion,
         sensibilidad |-> sensibilidad]

\* calcular once the schedule is there and the market has been compared
Comparado(c, tabla, tea, irr, comparacion, hoy) ==
    IF comparacion.error # ""
    THEN [error |-> comparacion.error, valor |-> ResultadoNulo]
    ELSE [error |-> "",
          valor |-> ResultadoCalculo(c, tabla, tea,
                                     _calcular_tir(c, tabla, irr),
                                     comparacion,
                                     _analisis_sensibilidad(c, hoy).valor)]

Calculado(c, t, tea, irr, tasas_mercado, hoy) ==
    IF t.error # "" THEN [error |-> t.error, valor |-> ResultadoNulo]
    ELSE Comparado(c, t.tabla, tea, irr,
                   _comparar_con_mercado(tasas_mercado, c, tea), hoy)

\* calcular(contrato) at the day hoy, np.irr handing back irr
calcular(c, hoy, irr, tasas_mercado) ==
    Calculado(c, _generar_tabla_amortizacion(c, hoy), _calcular_tea(c), irr,
              tasas_mercado, hoy)

\* ------------------------------------------------------ contract texts
\* A contract text is a sequence of clauses, one per line; a PDF is a
\* sequence of pages holding one clause each ("" is a page without text).
Clausulas ==
    {"",
     "Monto: $100.00",
     "Tasa: 240% fija",
     "Tasa variable",
     "Plazo: 3 meses",
     "Periodo de gracia de 2 meses",
     "Pago bullet",
     "Garantia: aval",
     "Comision de mantenimiento 1%",
     "PRESTAMISTA: Banco,",
     "PRESTATARIO: Acme,",
     "1. Tramo A: $100.00 al 240% fija a 3 meses",
     "2. Tramo B: 50.00 EUR al 300% fija a 4 meses"}

\* the clauses of the rate section of a contract
ClausulasTasa ==
    {"Monto: $100.00",
     "Tasa: 240% fija",
     "Tasa variable",
     "EURIBOR 3M + 2.5%",
     "Cap 7%, floor 3%",
     "Cap 3%, floor 7%",
     "Plazo: 3 meses"}

\* what the compiled patterns find in a clause none of them matches
SinSenales ==
    [usd |-> <<>>, eur |-> <<>>, mxn |-> <<>>,
     pct |-> <<>>, fija |-> FALSE, variable |-> FALSE,
     indice |-> <<>>, cap_floor |-> <<>>,
     meses |-> <<>>, anos |-> <<>>, frecuencia |-> <<>>,
     bullet |-> FALSE, gracia |-> <<>>,
     hipoteca |-> <<>>, prenda |-> <<>>, aval |-> FALSE,
     apertura |-> <<>>, mantenimiento |-> <<>>, seguro |-> <<>>,
     no_se_permite |-> FALSE, prepago |-> FALSE,
     penalizacion |-> <<>>, primeros |-> <<>>,
     dscr |-> <<>>, deuda_ebitda |-> <<>>, negative_pledge |-> FALSE,
     cross_default |-> FALSE, mora |-> <<>>, aceleracion |-> FALSE,
     triggers |-> 0, tribunales |-> <<>>,
     prestamista |-> <<>>, prestatario |-> <<>>,
     tramo |-> <<>>, corte |-> FALSE]

\* The leftmost match of each compiled pattern inside one clause, entered
\* on the record sin of a clause that matches nothing.
Senales(cl, sin) ==
    CASE cl = "Monto: $100.00" ->
            [sin EXCEPT !.usd = <<100 * Unidad>>]
      [] cl = "Tasa: 240% fija" ->
            [sin EXCEPT !.pct = <<240 * 100>>, !.fija = TRUE]
      [] cl = "Tasa variable" ->
            [sin EXCEPT !.variable = TRUE]
      [] cl = "Plazo: 3 meses" ->
            [sin EXCEPT !.meses = <<3>>]
      [] cl = "Periodo de gracia de 2 meses" ->
            [sin EXCEPT !.gracia = <<2>>, !.meses = <<2>>]
      [] cl = "Pago bullet" ->
            [sin EXCEPT !.bullet = TRUE]
      [] cl = "Garantia: aval" ->
            [sin EXCEPT !.aval = TRUE]
      [] cl = "Comision de mantenimiento 1%" ->
            [sin EXCEPT !.mantenimiento = <<100>>, !.pct = <<100>>]
      [] cl = "PRESTAMISTA: Banco," ->
            [sin EXCEPT !.prestamista = <<"Banco">>]
      [] cl = "PRESTATARIO: Acme," ->
            [sin EXCEPT !.prestatario = <<"Acme">>]
      [] cl = "1. Tramo A: $100.00 al 240% fija a 3 meses" ->
            [sin EXCEPT !.corte = TRUE, !.tramo = <<"Tramo A">>,
                        !.usd = <<100 * Unidad>>,
                        !.pct = <<240 * 100>>, !.fija = TRUE,
                        !.meses = <<3>>]
      [] cl = "2. Tramo B: 50.00 EUR al 300% fija a 4 meses" ->
            [sin EXCEPT !.corte = TRUE, !.tramo = <<"Tramo B">>,
                        !.eur = <<50 * Unidad>>,
                        !.pct = <<300 * 100>>, !.fija = TRUE,
                        !.meses = <<4>>]
      [] cl = "EURIBOR 3M + 2.5%" ->
            [sin EXCEPT !.indice = <<[indice |-> "EURIBOR 3M", valor |-> 250]>>,
                        !.pct = <<250>>]
      [] cl = "Cap 7%, floor 3%" ->
            [sin EXCEPT !.cap_floor = <<[tipo |-> "cap", valor |-> 700],
                                        [tipo |-> "floor", valor |-> 300]>>,
                        !.pct = <<700>>]
      [] cl = "Cap 3%, floor 7%" ->
            [sin EXCEPT !.cap_floor = <<[tipo |-> "cap", valor |-> 300],
                                        [tipo |-> "floor", valor |-> 700]>>,
                        !.pct = <<300>>]
      [] OTHER -> sin

Catalogo == [cl \in Clausulas \cup ClausulasTasa |-> Senales(cl, SinSenales)]

\* the first of a sequence of matches, <<>> when there is none
PrimeroDe(matches) == IF matches = <<>> THEN <<>> ELSE matches[1]

\* patron.search(texto): the match in the first clause that has one
Primera(texto, campo) ==
    PrimeroDe(SelectSeq([i \in 1..Len(texto) |-> Catalogo[texto[i]][campo]],
                        LAMBDA match : match # <<>>))

\* bool(patron.search(texto)) for the patterns that capture nothing
Alguna(texto, campo) == \E i \in 1..Len(texto) : Catalogo[texto[i]][campo]

\* the value of an Optional that is present, else a default
ValorO(opcional, defecto) == IF opcional = <<>> THEN defecto ELSE opcional[1]

RECURSIVE Concatenar(_)
Concatenar(ss) == IF ss = <<>> THEN <<>> ELSE Head(ss) \o Concatenar(Tail(ss))

Garantia(tipo, descripcion, tipo_general) ==
    [tipo |-> tipo, descripcion |-> descripcion,
     tipo_general |-> tipo_general]

ClausulaPrepago(permitido, penalizacion, periodo) ==
    [permitido |-> permitido, penalizacion |-> penalizacion,
     periodo_penalizacion_meses |-> periodo]

Covenant(tipo, valor, operador) ==
    [tipo |-> tipo, valor |-> valor, operador |-> operador]

ClausulaIncumplimiento(tipo) == [tipo |-> tipo, tiene_aceleracion |-> TRUE]

\* ------------------------------------------------------ field extractors
\* Each extractor searches its patterns once and decides on the matches.

\* USD, then EUR, then MXN; (0.0, "USD") when no amount is found
MontoHallado(usd, eur, mxn) ==
    IF usd # <<>> THEN [monto |-> usd[1], moneda |-> "USD"]
    ELSE IF eur # <<>> THEN [monto |-> eur[1], moneda |-> "EUR"]
    ELSE IF mxn # <<>> THEN [monto |-> mxn[1], moneda |-> "MXN"]
    ELSE [monto |-> 0, moneda |-> "USD"]

_extraer_monto_principal(texto) ==
    MontoHallado(Primera(texto, "usd"), Primera(texto, "eur"),
                 Primera(texto, "mxn"))

\* for match in patron_cap_floor.finditer(texto): the last match of a kind
\* is the one that stays
RECURSIVE UltimoDeTipo(_, _)
UltimoDeTipo(matches, tipo) ==
    IF matches = <<>> THEN <<>>
    ELSE IF matches[Len(matches)].tipo = tipo
    THEN <<matches[Len(matches)].valor>>
    ELSE UltimoDeTipo(SubSeq(matches, 1, Len(matches) - 1), tipo)

\* the spread of a patron_tasa_variable match: an index with a spread below
\* 10 is a percentage, turned into basis points; a bare figure is in bps
SpreadHallado(match_variable) ==
    IF match_variable = <<>> THEN <<>>
    ELSE IF match_variable[1].indice = "" THEN <<match_variable[1].valor>>
    ELSE IF match_variable[1].valor < 10 * 100
    THEN <<match_variable[1].valor * 100>>
    ELSE <<match_variable[1].valor>>

TasaHallada(es_principalmente_fija, es_principalmente_variable, match_fija, match_variable, caps) ==
    LET es_variable == es_principalmente_variable /\ ~es_principalmente_fija
    IN  [tasa |-> ValorO(match_fija, 0),
         tipo |-> IF es_variable THEN "variable" ELSE "fija",
         indice |-> IF /\ es_variable
                       /\ match_variable # <<>>
                       /\ match_variable[1].indice # ""
                    THEN <<match_variable[1].indice>>
                    ELSE <<>>,
         spread |-> IF es_variable THEN SpreadHallado(match_variable)
                    ELSE <<>>,
         cap |-> UltimoDeTipo(caps, "cap"),
         floor |-> UltimoDeTipo(caps, "floor")]

_extraer_tasa(texto) ==
    TasaHallada(Alguna(texto, "fija"), Alguna(texto, "variable"),
                Primera(texto, "pct"), Primera(texto, "indice"),
                Concatenar([i \in 1..Len(texto) |->
                               Catalogo[texto[i]].cap_floor]))

\* months first, then years * 12, else 0
PlazoHallado(meses, anos) ==
    IF meses # <<>> THEN meses[1]
    ELSE IF anos # <<>> THEN anos[1] * 12
    ELSE 0

_extraer_plazo(texto) ==
    PlazoHallado(Primera(texto, "meses"), Primera(texto, "anos"))

FrecuenciaHallada(match, bullet) ==
    IF match # <<>> THEN match[1]
    ELSE IF bullet THEN "bullet"
    ELSE "mensual"

_extraer_frecuencia(texto) ==
    FrecuenciaHallada(Primera(texto, "frecuencia"), Alguna(texto, "bullet"))

_extraer_periodo_gracia(texto) == ValorO(Primera(texto, "gracia"), 0)

GarantiasHalladas(hipoteca, prenda, aval) ==
    (IF hipoteca # <<>>
     THEN <<Garantia("hipoteca", hipoteca[1], "real")>> ELSE <<>>)
    \o (IF prenda # <<>>
        THEN <<Garantia("prenda", prenda[1], "real")>> ELSE <<>>)
    \o (IF aval
        THEN <<Garantia("aval", "Aval personal solidario", "personal")>>
        ELSE <<>>)

_extraer_garantias(texto) ==
    GarantiasHalladas(Primera(texto, "hipoteca"), Primera(texto, "prenda"),
                      Alguna(texto, "aval"))

_determinar_tipo_garantia(garantias) ==
    LET tiene_real ==
            \E i \in 1..Len(garantias) : garantias[i].tipo_general = "real"
        tiene_personal ==
            \E i \in 1..Len(garantias) :
                garantias[i].tipo_general = "personal"
    IN  IF garantias = <<>> THEN "sin_garantia"
        ELSE IF tiene_real /\ tiene_personal THEN "mixta"
        ELSE IF tiene_real THEN "real"
        ELSE IF tiene_personal THEN "personal"
        ELSE "sin_garantia"

ComisionesHalladas(apertura, mantenimiento, seguro) ==
    (IF apertura # <<>>
     THEN <<Comision("apertura", apertura[1], TRUE)>> ELSE <<>>)
    \o (IF mantenimiento # <<>>
        THEN <<Comision("mantenimiento", mantenimiento[1], TRUE)>>
        ELSE <<>>)
    \o (IF seguro # <<>>
        THEN <<Comision("seguro", seguro[1], FALSE)>> ELSE <<>>)

_extraer_comisiones(texto) ==
    ComisionesHalladas(Primera(texto, "apertura"),
                       Primera(texto, "mantenimiento"),
                       Primera(texto, "seguro"))

PrepagoHallado(no_se_permite, prepago, penalizacion, periodo) ==
    IF no_se_permite /\ prepago THEN <<ClausulaPrepago(FALSE, 0, 0)>>
    ELSE <<ClausulaPrepago(TRUE, ValorO(penalizacion, 0),
                           ValorO(periodo, 0))>>

_extraer_prepago(texto) ==
    PrepagoHallado(Alguna(texto, "no_se_permite"), Alguna(texto, "prepago"),
                   Primera(texto, "penalizacion"),
                   Primera(texto, "primeros"))

CovenantsHallados(dscr, deuda_ebitda, negative_pledge) ==
    (IF dscr # <<>> THEN <<Covenant("DSCR", dscr[1], ">=")>> ELSE <<>>)
    \o (IF deuda_ebitda # <<>>
        THEN <<Covenant("Deuda/EBITDA", deuda_ebitda[1], "<=")>>
        ELSE <<>>)
    \o (IF negative_pledge THEN <<Covenant("Negative Pledge", 0, "")>>
        ELSE <<>>)

_extraer_covenants(texto, c) ==
    [c EXCEPT !.covenants =
        @ \o CovenantsHallados(Primera(texto, "dscr"),
                               Primera(texto, "deuda_ebitda"),
                               Alguna(texto, "negative_pledge"))]

IncumplimientosHallados(cross, mora, aceleracion, triggers) ==
    (IF cross THEN <<ClausulaIncumplimiento("cross_default")>> ELSE <<>>)
    \o (IF mora # <<>> THEN <<ClausulaIncumplimiento("mora")>> ELSE <<>>)
    \o (IF aceleracion /\ triggers > 0
        THEN <<ClausulaIncumplimiento("aceleracion")>> ELSE <<>>)

_extraer_clausulas_incumplimiento(texto, c) ==
    [c EXCEPT
        !.tiene_cross_default = @ \/ Alguna(texto, "cross_default"),
        !.clausulas_incumplimiento =
            @ \o IncumplimientosHallados(
                     Alguna(texto, "cross_default"),
                     Primera(texto, "mora"),
                     Alguna(texto, "aceleracion"),
                     SumaCampo([i \in 1..Len(texto) |-> Catalogo[texto[i]]],
                               "triggers"))]

_extraer_partes(texto, c) ==
    [c EXCEPT
        !.prestamista = ValorO(Primera(texto, "prestamista"), @),
        !.prestatario = ValorO(Primera(texto, "prestatario"), @)]

_extraer_jurisdiccion(texto, c) ==
    [c EXCEPT !.jurisdiccion = ValorO(Primera(texto, "tribunales"), @)]

\* -------------------------------------------------- assembler and scorer
Tramo(nombre, m, tasa_info, plazo, frecuencia, gracia, garantias, comisiones, prepago) ==
    [nombre |-> nombre, monto |-> m.monto, moneda |-> m.moneda,
     tasa |-> tasa_info.tasa, tipo_tasa |-> tasa_info.tipo,
     plazo_meses |-> plazo, frecuencia_pago |-> frecuencia,
     indice_referencia |-> tasa_info.indice, spread |-> tasa_info.spread,
     cap |-> tasa_info.cap, floor |-> tasa_info.floor,
     periodo_gracia_meses |-> gracia, garantias |-> garantias,
     comisiones |-> comisiones, prepago |-> prepago]

_extraer_tramo(texto_tramo, nombre) ==
    Tramo(nombre,
          _extraer_monto_principal(texto_tramo),
          _extraer_tasa(texto_tramo),
          _extraer_plazo(texto_tramo),
          _extraer_frecuencia(texto_tramo),
          _extraer_periodo_gracia(texto_tramo),
          _extraer_garantias(texto_tramo),
          _extraer_comisiones(texto_tramo),
          _extraer_prepago(texto_tramo))

\* the assignments of _parsear_simple, given what the extractors returned
ContratoSimple(c, m, tasa_info, plazo, frecuencia, gracia, bullet, garantias, comisiones, prepago) ==
    [c EXCEPT
        !.monto_principal = m.monto,
        !.moneda = m.moneda,
        !.tasa_nominal = tasa_info.tasa,
        !.tipo_tasa = tasa_info.tipo,
        !.indice_referencia = tasa_info.indice,
        !.spread_bps = tasa_info.spread,
        !.cap = tasa_info.cap,
        !.floor = tasa_info.floor,
        !.plazo_meses = plazo,
        !.frecuencia_pago = frecuencia,
        !.periodo_gracia_meses = gracia,
        !.es_bullet = bullet,
        !.garantias = garantias,
        !.tipo_garantia_general = _determinar_tipo_garantia(garantias),
        !.comisiones = comisiones,
        !.prepago = prepago]

_parsear_simple(texto, c) ==
    ContratoSimple(c,
                   _extraer_monto_principal(texto),
                   _extraer_tasa(texto),
                   _extraer_plazo(texto),
                   _extraer_frecuencia(texto),
                   _extraer_periodo_gracia(texto),
                   Alguna(texto, "bullet"),
                   _extraer_garantias(texto),
                   _extraer_comisiones(texto),
                   _extraer_prepago(texto))

\* a clause put in front of the sections of the text after it: it joins
\* the first of them unless that one opens with a heading
Anteponer(cl, resto) ==
    IF resto = <<>> THEN <<<<cl>>>>
    ELSE IF Catalogo[resto[1][1]].corte THEN <<<<cl>>>> \o resto
    ELSE <<<<cl>> \o resto[1]>> \o Tail(resto)

\* re.split at every "<n>. Tramo <X>" heading: a heading clause opens a new
\* section
RECURSIVE Secciones(_)
Secciones(texto) ==
    IF texto = <<>> THEN <<>>
    ELSE Anteponer(Head(texto), Secciones(Tail(texto)))

\* the Tramo of a section in which patron_tramo matches
TramoDeSeccion(seccion, match_tramo) ==
    IF match_tramo # <<>> THEN <<_extraer_tramo(seccion, match_tramo[1])>>
    ELSE <<>>

RECURSIVE TramosDe(_)
TramosDe(secciones) ==
    IF secciones = <<>> THEN <<>>
    ELSE TramoDeSeccion(Head(secciones), Primera(Head(secciones), "tramo"))
         \o TramosDe(Tail(secciones))

\* the guarantees of garantias whose descripcion is not in vistas, first
\* occurrence kept
RECURSIVE SinRepetir(_, _)
SinRepetir(garantias, vistas) ==
    IF garantias = <<>> THEN <<>>
    ELSE IF Head(garantias).descripcion \in vistas
    THEN SinRepetir(Tail(garantias), vistas)
    ELSE <<Head(garantias)>>
         \o SinRepetir(Tail(garantias),
                       vistas \cup {Head(garantias).descripcion})

\* the first tranche's values as the contract's top-line fields
Consolidado(c, tramos) ==
    IF tramos = <<>> THEN c
    ELSE [c EXCEPT
            !.monto_principal = tramos[1].monto,
            !.moneda = tramos[1].moneda,
            !.tasa_nominal = tramos[1].tasa,
            !.tipo_tasa = tramos[1].tipo_tasa,
            !.plazo_meses = tramos[1].plazo_meses,
            !.frecuencia_pago = tramos[1].frecuencia_pago]

\* the assignments of _parsear_multitramo, given the tranches and what the
\* extractors returned on the whole text
ContratoMultitramo(c, tramos, garantias_texto, comisiones_texto, prepago) ==
    LET garantias ==
            IF garantias_texto = <<>>
            THEN SinRepetir(Concatenar([i \in 1..Len(tramos) |->
                                           tramos[i].garantias]), {})
            ELSE garantias_texto
    IN  [Consolidado(c, tramos) EXCEPT
            !.tramos = tramos,
            !.garantias = garantias,
            !.tipo_garantia_general = _determinar_tipo_garantia(garantias),
            !.comisiones =
                IF comisiones_texto = <<>>
                THEN Concatenar([i \in 1..Len(tramos) |->
                                    tramos[i].comisiones])
                ELSE comisiones_texto,
            !.prepago = prepago]

_parsear_multitramo(texto, c) ==
    ContratoMultitramo(c, TramosDe(Secciones(texto)),
                       _extraer_garantias(texto),
                       _extraer_comisiones(texto),
                       _extraer_prepago(texto))

\* _calcular_confianza with the rate deduction applied to variable rates too
ConfianzaSinTipoTasa(c) ==
    LET score == 100
                 - (IF c.monto_principal = 0 THEN 20 ELSE 0)
                 - (IF c.tasa_nominal = 0 THEN 15 ELSE 0)
                 - (IF c.plazo_meses = 0 THEN 15 ELSE 0)
                 - (IF c.garantias = <<>> THEN 5 ELSE 0)
                 - (IF c.comisiones = <<>> THEN 5 ELSE 0)
                 - (IF c.prestamista = "" THEN 5 ELSE 0)
                 - (IF c.prestatario = "" THEN 5 ELSE 0)
    IN  [score |-> Max(0, score), advertencias |-> c.advertencias]

\* the score, and contrato.advertencias after the scorer's appends
_calcular_confianza(c) ==
    LET sin_monto == c.monto_principal = 0
        sin_tasa == c.tasa_nominal = 0 /\ c.tipo_tasa = "fija"
        sin_plazo == c.plazo_meses = 0
        sin_garantias == c.garantias = <<>>
        sin_comisiones == c.comisiones = <<>>
        score == 100
                 - (IF sin_monto THEN 20 ELSE 0)
                 - (IF sin_tasa THEN 15 ELSE 0)
                 - (IF sin_plazo THEN 15 ELSE 0)
                 - (IF sin_garantias THEN 5 ELSE 0)
                 - (IF sin_comisiones THEN 5 ELSE 0)
                 - (IF c.prestamista = "" THEN 5 ELSE 0)
                 - (IF c.prestatario = "" THEN 5 ELSE 0)
    IN  [score |-> Max(0, score),
         advertencias |->
             c.advertencias
             \o (IF sin_monto
                 THEN <<"No se pudo extraer el monto principal">>
                 ELSE <<>>)
             \o (IF sin_tasa
                 THEN <<"No se pudo extraer la tasa de interes">>
                 ELSE <<>>)
             \o (IF sin_plazo THEN <<"No se pudo extraer el plazo">>
                 ELSE <<>>)
             \o (IF sin_garantias
                 THEN <<"No se identificaron garantias explicitas">>
                 ELSE <<>>)
             \o (IF sin_comisiones
                 THEN <<"No se identificaron comisiones">>
                 ELSE <<>>)]

\* the pages read before the reader raised (all of them when it did not),
\* pages without text skipped
extraer_texto_pdf(paginas, leidas) ==
    SelectSeq(SubSeq(paginas, 1, leidas), LAMBDA pagina : pagina # "")

\* single-tranche or multi-tranche assembly, on the number of patron_tramo
\* matches
Armado(texto, c, tramos_encontrados) ==
    IF tramos_encontrados > 1 THEN _parsear_multitramo(texto, c)
    ELSE _parsear_simple(texto, c)

\* contrato.confianza_extraccion = self._calcular_confianza(contrato)
Puntuado(c, confianza) ==
    [c EXCEPT !.confianza_extraccion = confianza.score,
              !.advertencias = confianza.advertencias]

ConConfianza(c) == Puntuado(c, _calcular_confianza(c))

\* the extraction pass that follows the empty-text test
ExtraerTodo(texto) ==
    ConConfianza(
        _extraer_jurisdiccion(texto,
            _extraer_clausulas_incumplimiento(texto,
                _extraer_covenants(texto,
                    _extraer_partes(texto,
                        Armado(texto,
                               [ContratoParseado EXCEPT
                                   !.texto_original = texto],
                               Cardinality({i \in 1..Len(texto) :
                                   Catalogo[texto[i]].tramo # <<>>})))))))

\* parsear_contrato running the extraction pass on an empty text as well
ParsearSinGuarda(texto) == ExtraerTodo(texto)

parsear_contrato(texto) ==
    IF texto = <<>>
    THEN [ContratoParseado EXCEPT
             !.advertencias = <<"No se pudo extraer texto del PDF">>]
    ELSE ExtraerTodo(texto)

\* ------------------------------------------------------------- the system
\* Contracts a caller hands to the calculator: the field values the parser
\* can assemble (amounts with two decimals, whole months, the three fee
\* kinds in extraction order).
Montos == {0, 50 * Unidad, 100 * Unidad, 1234 * 100}
ListasComisiones ==
    {<<>>,
     <<Comision("mantenimiento", 100, TRUE)>>,
     <<Comision("apertura", 200, TRUE),
       Comision("mantenimiento", 100, TRUE),
       Comision("seguro", 5 * Unidad, FALSE)>>}

\* the PDFs handed to the parser
Documentos == UNION {[1..n -> Clausulas] : n \in 0..MaxTexto}

\* base^n <= limite, without forming base^n
RECURSIVE Cabe(_, _, _)
Cabe(base, n, limite) ==
    IF n = 0 THEN limite >= 1 ELSE Cabe(base, n - 1, limite \div base)

\* the fixed payment at this rate over n periods stays inside TLC's
\* integers
CuotaCalculable(tasa, n) ==
    IF tasa <= 0 \/ n = 0 THEN TRUE
    ELSE Cabe(TasaNum(tasa) + TasaDen(tasa), Abs(n),
              Pow(2, 29) \div Max(TasaNum(tasa), TasaDen(tasa)))

TablaCalculable(c) ==
    IF c.es_bullet THEN TRUE
    ELSE CuotaCalculable(c.tasa_nominal,
                         IF c.periodo_gracia_meses > 0
                         THEN c.plazo_meses - c.periodo_gracia_meses
                         ELSE c.plazo_meses)

\* every scenario schedule of the sensitivity analysis stays inside them
SensibilidadCalculable(c) ==
    /\ c.plazo_meses <= MaxPlazo
    /\ c.periodo_gracia_meses <= MaxGracia
    /\ TablaCalculable(c)
    /\ \A k \in 1..Len(Escenarios) :
          TablaCalculable(
              ContratoModificado(c, NuevaTasa(c.tasa_nominal, Escenarios[k],
                                              c.cap, c.floor)))

\* the contracts whose calculation stays inside TLC's integers
Calculable(c) ==
    /\ c.monto_principal \in Montos
    /\ c.tasa_nominal \in Tasas
    /\ c.plazo_meses <= MaxPlazo
    /\ c.periodo_gracia_meses <= MaxGracia
    /\ IF c.tipo_tasa = "variable" THEN SensibilidadCalculable(c) ELSE TRUE

NadaDevuelto ==
    [op |-> "", args |-> <<>>, error |-> "", valor |-> <<>>, origen |-> ""]

Init ==
    /\ pc = "inicio"
    /\ reloj = 0
    /\ fallo_lectura = FALSE
    /\ texto_leido = <<>>
    /\ contrato = ContratoParseado
    /\ resultado = ResultadoNulo
    /\ excepcion = ""
    /\ market_rates = MercadoVacio
    /\ tir_origen = ""
    /\ devuelto = NadaDevuelto
    /\ previo = <<>>

\* the caller builds a ContratoParseado directly
NuevoContrato ==
    /\ pc = "inicio"
    /\ \E monto \in Montos, tasa \in Tasas, plazo \in 0..MaxPlazo,
          gracia \in 0..MaxGracia, bullet \in BOOLEAN,
          comisiones \in ListasComisiones :
          contrato' = [ContratoParseado EXCEPT
                          !.monto_principal = monto,
                          !.tasa_nominal = tasa,
                          !.plazo_meses = plazo,
                          !.periodo_gracia_meses = gracia,
                          !.es_bullet = bullet,
                          !.comisiones = comisiones]
    /\ pc' = "contrato"
    /\ UNCHANGED <<reloj, fallo_lectura, texto_leido, resultado, excepcion,
                   market_rates, tir_origen, devuelto, previo>>

\* parser.parsear_contrato(ruta_pdf): the reader either delivers every page
\* or raises, at open or at some page, after leidas pages
ParsearContrato ==
    /\ pc = "inicio"
    /\ \E paginas \in Documentos, fallo \in BOOLEAN :
          \E leidas \in 0..Len(paginas) :
             /\ fallo \/ leidas = Len(paginas)
             /\ fallo => (leidas < Len(paginas) \/ paginas = <<>>)
             /\ fallo_lectura' = fallo
             /\ texto_leido' = extraer_texto_pdf(paginas, leidas)
             /\ contrato' = parsear_contrato(texto_leido')
    /\ pc' = "parseado"
    /\ UNCHANGED <<reloj, resultado, excepcion, market_rates, tir_origen,
                   devuelto, previo>>

\* which branch _calcular_tir took
OrigenTir(irr) == IF irr = <<>> THEN "tea" ELSE "irr"

\* the caller of calculator.calcular gets the result or the exception
Devolver(r, origen) ==
    IF r.error # ""
    THEN /\ excepcion' = r.error
         /\ pc' = "fallo"
         /\ UNCHANGED <<resultado, tir_origen>>
    ELSE /\ resultado' = r.valor
         /\ tir_origen' = origen
         /\ pc' = "calculado"
         /\ UNCHANGED excepcion

\* calculator.calcular(contrato) in ejecutar_analisis, the calculator built
\* on the default market file; datetime.now() reads a clock that never runs
\* backwards (reloj is its last reading, in days)
Calcular ==
    /\ pc \in {"contrato", "parseado"}
    /\ Calculable(contrato)
    /\ \E hoy \in reloj..MaxDia :
          /\ reloj' = hoy
          /\ \E irr \in SalidasIRR(
                            contrato,
                            _generar_tabla_amortizacion(contrato, hoy).tabla) :
                Devolver(calcular(contrato, hoy, irr, market_rates),
                         OrigenTir(irr))
    /\ UNCHANGED <<fallo_lectura, texto_leido, contrato, market_rates,
                   devuelto, previo>>

Next == NuevoContrato \/ ParsearContrato \/ Calcular

Spec == Init /\ [][Next]_vars

\* the PDFs that hold clauses of the rate section only
DocumentosTasa == UNION {[1..n -> ClausulasTasa] : n \in 0..MaxTexto}

\* parser.parsear_contrato(ruta_pdf) on one of them, read to the end
ParsearTasas ==
    /\ pc = "inicio"
    /\ \E paginas \in DocumentosTasa :
          /\ texto_leido' = extraer_texto_pdf(paginas, Len(paginas))
          /\ contrato' = parsear_contrato(texto_leido')
    /\ pc' = "parseado"
    /\ UNCHANGED <<reloj, fallo_lectura, resultado, excepcion, market_rates,
                   tir_origen, devuelto, previo>>

SpecTasas == Init /\ [][ParsearTasas]_vars

\* ------------------------------------------------- the calculator's callers
\* A caller holds a contract and a calculator and calls its operations in
\* any order; devuelto is what the last call handed back, previo what the
\* call before it did when it was the same call with the same arguments.
Frecuencias == {"mensual", "trimestral", "semestral", "anual", "bullet"}

Clausulas_prepago ==
    {<<>>, <<ClausulaPrepago(TRUE, 250, 2)>>, <<ClausulaPrepago(FALSE, 100, 0)>>}

\* the extra amounts 33.33 and 200.0001
MontosPrepago == {3333 * 100, 200 * Unidad + 1}

\* fixed-rate contracts of 100 at the representable rates
ContratosFijos ==
    {[ContratoParseado EXCEPT
         !.monto_principal = 100 * Unidad, !.tasa_nominal = tasa,
         !.plazo_meses = plazo, !.es_bullet = bullet,
         !.frecuencia_pago = frecuencia, !.prepago = prepago] :
     tasa \in Tasas, plazo \in 0..MaxPlazo, bullet \in BOOLEAN,
     frecuencia \in Frecuencias, prepago \in Clausulas_prepago}

\* variable-rate contracts at 0.25 %, 5 % and 240 %, the bounds absent, 0,
\* 3/4 % or 7 %
ContratosVariables ==
    {[ContratoParseado EXCEPT
         !.monto_principal = 100 * Unidad, !.tipo_tasa = "variable",
         !.tasa_nominal = tasa, !.plazo_meses = plazo, !.es_bullet = bullet,
         !.cap = cap, !.floor = floor] :
     tasa \in {25, 500, 240 * 100}, plazo \in 0..MaxPlazo,
     bullet \in BOOLEAN, cap \in {<<>>, <<0>>, <<400>>, <<700>>},
     floor \in {<<>>, <<0>>, <<300>>, <<700>>}}

\* origen is not part of what is handed back: it records which branch
\* _calcular_tir took inside the call
Anotado(op, args, r, origen) ==
    [op |-> op, args |-> args, error |-> r.error, valor |-> r.valor,
     origen |-> origen]

\* the caller keeps what the call returned or raised
Anotar(op, args, r, origen) ==
    /\ devuelto' = Anotado(op, args, r, origen)
    /\ previo' = IF devuelto.op = op /\ devuelto.args = args
                 THEN <<devuelto>> ELSE <<>>

\* resultado = calculator.calcular(contrato)
Guardar(r, origen) ==
    /\ Anotar("calcular", <<>>, r, IF r.error = "" THEN origen ELSE "")
    /\ resultado' = IF r.error = "" THEN r.valor ELSE resultado
    /\ tir_origen' = IF r.error = "" THEN origen ELSE tir_origen

LlamarCalcular ==
    /\ pc = "contrato"
    /\ Calculable(contrato)
    /\ \E hoy \in reloj..MaxDia :
          /\ reloj' = hoy
          /\ \E irr \in SalidasIRR(
                            contrato,
                            _generar_tabla_amortizacion(contrato, hoy).tabla) :
                Guardar(calcular(contrato, hoy, irr, market_rates),
                        OrigenTir(irr))
    /\ contrato' = ContratoTrasSensibilidad(contrato)
    /\ UNCHANGED <<pc, fallo_lectura, texto_leido, excepcion, market_rates>>

\* calculator._analisis_sensibilidad(contrato)
LlamarSensibilidad ==
    /\ pc = "contrato"
    /\ SensibilidadCalculable(contrato)
    /\ \E hoy \in reloj..MaxDia :
          /\ reloj' = hoy
          /\ Anotar("sensibilidad", <<>>,
                    _analisis_sensibilidad(contrato, hoy), "")
    /\ contrato' = ContratoTrasSensibilidad(contrato)
    /\ UNCHANGED <<pc, fallo_lectura, texto_leido, excepcion, market_rates,
                   resultado, tir_origen>>

\* calculator.calcular_escenario_prepago(contrato, mes_prepago,
\* monto_prepago)
LlamarPrepago ==
    /\ pc = "contrato"
    /\ contrato.plazo_meses <= MaxPlazo
    /\ TablaCalculable(contrato)
    /\ \E hoy \in reloj..MaxDia, mes_prepago \in 1..(MaxPlazo + 1),
          monto_prepago \in MontosPrepago :
          /\ reloj' = hoy
          /\ Anotar("prepago", <<mes_prepago, monto_prepago>>,
                    calcular_escenario_prepago(contrato, mes_prepago,
                                               monto_prepago, hoy), "")
    /\ UNCHANGED <<pc, fallo_lectura, texto_leido, excepcion, market_rates,
                   resultado, tir_origen, contrato>>

InitCon(contratos, mercados) ==
    /\ pc = "contrato"
    /\ reloj = 0
    /\ fallo_lectura = FALSE
    /\ texto_leido = <<>>
    /\ contrato \in contratos
    /\ resultado = ResultadoNulo
    /\ excepcion = ""
    /\ market_rates \in mercados
    /\ tir_origen = ""
    /\ devuelto = NadaDevuelto
    /\ previo = <<>>

\* the sensitivity analysis of variable-rate contracts
InitSensibilidad == InitCon(ContratosVariables, {MercadoVacio})

SpecSensibilidad == InitSensibilidad /\ [][LlamarSensibilidad]_vars

\* the prepayment simulation of fixed-rate contracts
InitPrepago ==
    InitCon({c \in ContratosFijos : c.frecuencia_pago = "mensual"},
            {MercadoVacio})

SpecPrepago == InitPrepago /\ [][LlamarPrepago]_vars

\* the three operations in any order
InitCalculadora ==
    InitCon({c \in ContratosFijos :
                 /\ c.prepago = <<>>
                 /\ c.tasa_nominal \in {0, 240 * 100}
                 /\ IF c.es_bullet
                       THEN c.frecuencia_pago = "bullet"
                       ELSE /\ c.frecuencia_pago \in {"mensual", "trimestral"}
                            /\ c.tasa_nominal = 240 * 100}
            \cup {c \in ContratosVariables :
                     /\ c.es_bullet
                     /\ c.tasa_nominal = 240 * 100
                     /\ c.cap \in {<<>>, <<400>>}
                     /\ c.floor = <<>>},
            {MercadoVacio})

NextCalculadora == LlamarCalcular \/ LlamarSensibilidad \/ LlamarPrepago

SpecCalculadora == InitCalculadora /\ [][NextCalculadora]_vars

\* the market comparison against a loaded table.  A table is what
\* json.load hands back for a file of the expected shape, any key absent:
\* nested dictionaries down to a band of numbers.
CamposBanda == {"promedio", "min", "max"}

Banda(campos, tasa_min, tasa_max) ==
    [k \in campos |-> CASE k = "promedio" -> 10 * 100
                        [] k = "min" -> tasa_min
                        [] k = "max" -> tasa_max]

\* bands with an average of 10 %, the ends at 8 % or 14 % in either order
Bandas ==
    {Banda(campos, tasa_min, tasa_max) :
     campos \in SUBSET CamposBanda, tasa_min \in {8 * 100, 14 * 100},
     tasa_max \in {8 * 100, 14 * 100}}

MercadoCon(banda) ==
    [tasas_referencia |->
        [por_tipo_empresa |-> [pyme |-> [corto_plazo |-> banda]]]]

Mercados ==
    {MercadoVacio,
     [fecha_actualizacion |-> 0],
     [tasas_referencia |-> <<>>],
     [tasas_referencia |-> [por_tipo_empresa |-> <<>>]],
     [tasas_referencia |-> [por_tipo_empresa |-> [pyme |-> <<>>]]]}
    \cup {MercadoCon(banda) : banda \in Bandas}

\* effective rates around the band, and one far above it
TasasEfectivas == {700, 800, 1000, 1250, 1400, 1500, 79161}

\* the dictionary of the comparison as the call's value
Comparacion(r) ==
    [error |-> r.error,
     valor |-> [diferencia |-> r.diferencia, percentil |-> r.percentil,
                evaluacion |-> r.evaluacion]]

\* calculator._comparar_con_mercado(contrato, tea)
LlamarComparar ==
    /\ pc = "contrato"
    /\ \E tea \in TasasEfectivas :
          Anotar("comparar", <<tea>>,
                 Comparacion(_comparar_con_mercado(market_rates, contrato,
                                                   tea)), "")
    /\ UNCHANGED <<pc, reloj, fallo_lectura, texto_leido, excepcion,
                   market_rates, resultado, tir_origen, contrato>>

\* contracts of 100 over 12 and 13 months (the short and the medium term)
InitMercado ==
    InitCon({[ContratoParseado EXCEPT !.monto_principal = 100 * Unidad,
                                      !.plazo_meses = plazo] :
             plazo \in {12, 13}},
            Mercados)

SpecMercado == InitMercado /\ [][LlamarComparar]_vars

\* fee lists a caller can hand over: the parser's (one entry of a kind, in
\* extraction order), the same entries in another order, and lists that
\* carry the maintenance entry twice
ListasComisionesRepetidas ==
    ListasComisiones
    \cup {<<Comision("seguro", 5 * Unidad, FALSE),
            Comision("mantenimiento", 100, TRUE),
            Comision("apertura", 200, TRUE)>>,
          <<Comision("mantenimiento", 100, TRUE),
            Comision("mantenimiento", 100, TRUE)>>,
          <<Comision("apertura", 200, TRUE),
            Comision("mantenimiento", 100, TRUE),
            Comision("seguro", 5 * Unidad, FALSE),
            Comision("mantenimiento", 100, TRUE)>>}

\* the calculation of contracts of 100 with those fee lists
InitComisiones ==
    InitCon({[ContratoParseado EXCEPT
                 !.monto_principal = 100 * Unidad, !.tasa_nominal = tasa,
                 !.plazo_meses = plazo, !.es_bullet = bullet,
                 !.comisiones = comisiones] :
             tasa \in {0, 240 * 100}, plazo \in 0..MaxPlazo,
             bullet \in BOOLEAN, comisiones \in ListasComisionesRepetidas},
            {MercadoVacio})

SpecComisiones == InitComisiones /\ [][LlamarCalcular]_vars

\* Long annuities.  The exact powers of the amortization engine above stop
\* at a handful of periods, so the standard annuity over dozens of periods
\* is computed on finer grids instead: money in units of 1e-7, the factor
\* (1 + tasa_mensual)^n in units of 1e-9, every product truncated to its
\* grid.  The grids hold amounts up to 200 and factors up to 2.
UnidadFina == 10 * 1000 * 1000
EscalaFactor == 1000 * 1000 * 1000

\* factor * (1 + tasa_mensual)
Crecido(factor, tasa) == factor + (factor * TasaNum(tasa)) \div TasaDen(tasa)

\* (1 + tasa_mensual)**n
RECURSIVE FactorCompuesto(_, _)
FactorCompuesto(tasa, n) ==
    IF n = 0 THEN EscalaFactor
    ELSE Crecido(FactorCompuesto(tasa, n - 1), tasa)

\* monto * (tasa_mensual * (1 + tasa_mensual)**n) / ((1 + tasa_mensual)**n - 1)
CuotaLarga(monto, tasa, factor) ==
    MulDiv((monto * TasaNum(tasa)) \div TasaDen(tasa), factor,
           factor - EscalaFactor)

\* round(x, 2) of money on the 1e-7 grid, in cents
Round2Fino(x) ==
    RedondeoCociente(x \div (UnidadFina \div 100), x % (UnidadFina \div 100),
                     UnidadFina \div 100)

\* the row of period i, given its unrounded amounts
FilaLarga(i, hoy, cuota, interes, saldo_nuevo) ==
    FilaAmortizacion(i, Fecha(hoy, i), Round2Fino(cuota),
                     Round2Fino(cuota - interes), Round2Fino(interes),
                     Round2Fino(saldo_nuevo), 0)

\* for i in range(1, n + 1): the annuity rows
RECURSIVE CicloFrancesLargo(_, _, _, _, _, _)
RECURSIVE SigueFrancesLargo(_, _, _, _, _, _, _)
SigueFrancesLargo(i, hasta, saldo, cuota, tasa, hoy, interes) ==
    <<FilaLarga(i, hoy, cuota, interes, Max(0, saldo - (cuota - interes)))>>
    \o CicloFrancesLargo(i + 1, hasta, Max(0, saldo - (cuota - interes)),
                         cuota, tasa, hoy)

CicloFrancesLargo(i, hasta, saldo, cuota, tasa, hoy) ==
    IF i > hasta THEN <<>>
    ELSE SigueFrancesLargo(i, hasta, saldo, cuota, tasa, hoy,
                           (saldo * TasaNum(tasa)) \div TasaDen(tasa))

\* _amortizacion_francesa of a contract without fees at a rate above 0
AmortizacionFrancesaLarga(c, hoy) ==
    [error |-> "",
     valor |-> CicloFrancesLargo(
                   1, c.plazo_meses,
                   c.monto_principal * (UnidadFina \div Unidad),
                   CuotaLarga(c.monto_principal * (UnidadFina \div Unidad),
                              c.tasa_nominal,
                              FactorCompuesto(c.tasa_nominal, c.plazo_meses)),
                   c.tasa_nominal, hoy)]

\* contracts of 50 and 100 at 5 % and of 120 at 12 %, over 1 to
\* MaxPlazoLargo months
ContratosLargos ==
    {[ContratoParseado EXCEPT
         !.monto_principal = caso[1] * Unidad, !.tasa_nominal = caso[2],
         !.plazo_meses = plazo] :
     caso \in {<<50, 500>>, <<100, 500>>, <<120, 1200>>},
     plazo \in 1..MaxPlazoLargo}

\* calculator._amortizacion_francesa(contrato)
LlamarTablaLarga ==
    /\ pc = "contrato"
    /\ contrato \in ContratosLargos
    /\ \E hoy \in reloj..MaxDia :
          /\ reloj' = hoy
          /\ Anotar("tabla", <<>>, AmortizacionFrancesaLarga(contrato, hoy),
                    "")
    /\ UNCHANGED <<pc, fallo_lectura, texto_leido, excepcion, market_rates,
                   resultado, tir_origen, contrato>>

InitLargoPlazo == InitCon(ContratosLargos, {MercadoVacio})

SpecLargoPlazo == InitLargoPlazo /\ [][LlamarTablaLarga]_vars

\* ----------------------------------------------------------- risk assessor
\* Every category ends with score = max(0, min(100, score)).
\* _evaluar_riesgo_liquidez: the payment structure (weight 0.25); the ratio
\* cuota_mensual * 12 / monto_principal is compared with 0.6 and 0.4
_evaluar_riesgo_liquidez(c, r) ==
    LET cuota_anual ==
            IF c.monto_principal > 0
            THEN IF r.cuota_mensual * Unidad > 5 * c.monto_principal
                 THEN 0 - 30
                 ELSE IF r.cuota_mensual * 3 * Unidad > 10 * c.monto_principal
                      THEN 0 - 15 ELSE 0
            ELSE 0
        bullet == IF c.es_bullet THEN 0 - 20 ELSE 0
        gracia == IF c.periodo_gracia_meses > 0
                  THEN IF c.periodo_gracia_meses >= 12 THEN 0 - 10 ELSE 5
                  ELSE 0
        frecuencia == IF c.frecuencia_pago = "anual" THEN 0 - 10
                      ELSE IF c.frecuencia_pago = "mensual" THEN 5 ELSE 0
        plazo == IF c.plazo_meses > 60 THEN 10
                 ELSE IF c.plazo_meses < 12 THEN 0 - 15 ELSE 0
    IN  Max(0, Min(100, 100 + cuota_anual + bullet + gracia + frecuencia
                             + plazo))

\* _evaluar_riesgo_tasa: the rate type, the distance to the market and the
\* spread (weight 0.20); an Optional that is None or 0 is falsy
_evaluar_riesgo_tasa(c, r) ==
    LET variable == c.tipo_tasa = "variable"
        tipo == IF variable
                THEN 0 - 20
                     + (IF c.cap # <<>> /\ c.cap # <<0>> THEN 10 ELSE 0)
                     - (IF c.floor # <<>> /\ c.floor # <<0>> THEN 5 ELSE 0)
                ELSE 10
        mercado == IF r.diferencia_vs_mercado > 300 THEN 0 - 25
                   ELSE IF r.diferencia_vs_mercado > 150 THEN 0 - 15
                   ELSE IF r.diferencia_vs_mercado < 0 - 100 THEN 10 ELSE 0
        spread == IF variable /\ c.spread_bps # <<>> /\ c.spread_bps # <<0>>
                  THEN IF c.spread_bps[1] > 400 * 100 THEN 0 - 15
                       ELSE IF c.spread_bps[1] < 200 * 100 THEN 5 ELSE 0
                  ELSE 0
    IN  Max(0, Min(100, 100 + tipo + mercado + spread))

\* the loop over the covenants: what their severity takes off the score
RECURSIVE SeveridadCovenants(_)
SeveridadCovenants(covenants) ==
    IF covenants = <<>> THEN 0
    ELSE LET covenant == Head(covenants)
             resta == IF covenant.tipo = "DSCR"
                      THEN IF covenant.valor >= 150 THEN 15
                           ELSE IF covenant.valor >= 125 THEN 5 ELSE 0
                      ELSE IF covenant.tipo = "Deuda/EBITDA"
                      THEN IF covenant.valor <= 250 THEN 15
                           ELSE IF covenant.valor <= 350 THEN 5 ELSE 0
                      ELSE IF covenant.tipo = "Negative Pledge" THEN 10
                      ELSE 0
         IN  resta + SeveridadCovenants(Tail(covenants))

\* _evaluar_riesgo_operativo: covenants, default triggers and cross-default
\* (weight 0.20)
_evaluar_riesgo_operativo(c) ==
    LET num_covenants == Len(c.covenants)
        numero == IF num_covenants > 4 THEN 0 - 20
                  ELSE IF num_covenants > 2 THEN 0 - 10
                  ELSE IF num_covenants = 0 THEN 5 ELSE 0
        num_clausulas == Len(c.clausulas_incumplimiento)
        triggers == IF num_clausulas > 5 THEN 0 - 15
                    ELSE IF num_clausulas > 3 THEN 0 - 5 ELSE 0
        cross == IF c.tiene_cross_default THEN 0 - 15 ELSE 0
    IN  Max(0, Min(100, 100 + numero - SeveridadCovenants(c.covenants)
                             + triggers + cross))

\* the loop over the guarantees: what the mortgage rank takes off; the
\* descriptions that hold "1er grado" / "primer grado", and "2º grado" /
\* "segundo grado"
RECURSIVE GradoHipoteca(_)
GradoHipoteca(garantias) ==
    IF garantias = <<>> THEN 0
    ELSE LET descripcion == Head(garantias).descripcion
             resta == IF descripcion \in {"1er grado", "Primer Grado"}
                      THEN 10
                      ELSE IF descripcion \in {"2º grado", "Segundo Grado"}
                           THEN 5 ELSE 0
         IN  resta + GradoHipoteca(Tail(garantias))

\* _evaluar_riesgo_legal: guarantees and jurisdiction (weight 0.15); the
\* jurisdictions that hold "España" or "Madrid"
_evaluar_riesgo_legal(c) ==
    LET tipo_garantia == c.tipo_garantia_general
        tipo == IF tipo_garantia = "real" THEN 0 - 20
                ELSE IF tipo_garantia = "mixta" THEN 0 - 25
                ELSE IF tipo_garantia = "personal" THEN 0 - 10 ELSE 10
        num_garantias == Len(c.garantias)
        cantidad == IF num_garantias > 3 THEN 0 - 15
                    ELSE IF num_garantias = 0 THEN 5 ELSE 0
        jurisdiccion ==
            IF c.jurisdiccion \in {"Madrid", "Tribunales de España"}
            THEN 5 ELSE 0
    IN  Max(0, Min(100, 100 + tipo - GradoHipoteca(c.garantias) + cantidad
                             + jurisdiccion))

\* _evaluar_riesgo_prepago: the prepayment clause (weight 0.20)
_evaluar_riesgo_prepago(c) ==
    LET prepago == c.prepago[1]
        penalizacion == IF prepago.penalizacion > 250 THEN 0 - 25
                        ELSE IF prepago.penalizacion > 150 THEN 0 - 15
                        ELSE IF prepago.penalizacion > 0 THEN 0 - 5 ELSE 10
        periodo == IF prepago.periodo_penalizacion_meses > 18 THEN 0 - 10
                   ELSE IF prepago.periodo_penalizacion_meses > 12
                        THEN 0 - 5 ELSE 0
    IN  IF c.prepago = <<>> THEN 100
        ELSE IF ~prepago.permitido THEN 60
        ELSE Max(0, Min(100, 100 + penalizacion + periodo))

RedFlag(tipo, severidad, impacto_score) ==
    [tipo |-> tipo, severidad |-> severidad, impacto_score |-> impacto_score]

\* comision_apertura: the value of the last "apertura" entry, 0 without one
RECURSIVE ComisionApertura(_)
ComisionApertura(comisiones) ==
    IF comisiones = <<>> THEN 0
    ELSE LET ultimo == comisiones[Len(comisiones)]
         IN  IF ultimo.tipo = "apertura" THEN ultimo.valor
             ELSE ComisionApertura(SubSeq(comisiones, 1, Len(comisiones) - 1))

\* _identificar_red_flags: the eight alerts, in the order they are tested
_identificar_red_flags(c, r) ==
    LET tiene(tipo) ==
            \E i \in 1..Len(c.garantias) : c.garantias[i].tipo = tipo
    IN  (IF r.diferencia_vs_mercado > 300
         THEN <<RedFlag("tasa_elevada", "alta", 0 - 15)>> ELSE <<>>)
        \o (IF Len(c.clausulas_incumplimiento) > 5
            THEN <<RedFlag("triggers_excesivos", "alta", 0 - 10)>>
            ELSE <<>>)
        \o (IF c.prepago # <<>> /\ c.prepago[1].penalizacion > 250
            THEN <<RedFlag("penalizacion_excesiva", "media", 0 - 8)>>
            ELSE <<>>)
        \o (IF c.tipo_tasa = "variable" /\ c.cap \in {<<>>, <<0>>}
            THEN <<RedFlag("sin_cap", "alta", 0 - 12)>> ELSE <<>>)
        \o (IF tiene("hipoteca") /\ tiene("prenda") /\ tiene("aval")
            THEN <<RedFlag("sobrecolateralizacion", "media", 0 - 8)>>
            ELSE <<>>)
        \o (IF c.tiene_cross_default
            THEN <<RedFlag("cross_default", "media", 0 - 6)>> ELSE <<>>)
        \o (IF r.costo_anual_total > 30 * 100
            THEN <<RedFlag("cat_elevado", "alta", 0 - 12)>> ELSE <<>>)
        \o (IF ComisionApertura(c.comisiones) > 250
            THEN <<RedFlag("comision_apertura_alta", "media", 0 - 5)>>
            ELSE <<>>)

\* the score before it is brought back into range
ScoreTotalSinTopes(scores_categorias, red_flags) ==
    LET ponderado == 25 * scores_categorias[1] + 20 * scores_categorias[2]
                     + 20 * scores_categorias[3] + 15 * scores_categorias[4]
                     + 20 * scores_categorias[5]
        score_final == ponderado + 100 * SumaCampo(red_flags, "impacto_score")
    IN  IF score_final >= 0 THEN score_final \div 100
        ELSE 0 - ((0 - score_final) \div 100)

\* _calcular_score_total: the mean of the category scores by their weights
\* 0.25, 0.20, 0.20, 0.15, 0.20, plus the impacts of the red flags; int()
\* drops the fraction towards zero, and the result is kept in 0..100
_calcular_score_total(scores_categorias, red_flags) ==
    LET ponderado == 25 * scores_categorias[1] + 20 * scores_categorias[2]
                     + 20 * scores_categorias[3] + 15 * scores_categorias[4]
                     + 20 * scores_categorias[5]
        score_final == ponderado + 100 * SumaCampo(red_flags, "impacto_score")
        entero == IF score_final >= 0 THEN score_final \div 100
                  ELSE 0 - ((0 - score_final) \div 100)
    IN  Max(0, Min(100, entero))

\* _generar_recomendacion: the suggested action
_generar_recomendacion(score, red_flags) ==
    LET num_flags_criticos ==
            Cardinality({i \in 1..Len(red_flags) :
                             red_flags[i].severidad \in {"alta", "critica"}})
    IN  IF score >= 70 /\ num_flags_criticos = 0 THEN "Aceptar"
        ELSE IF score >= 50 THEN "Negociar"
        ELSE IF score >= 40 /\ num_flags_criticos <= 1 THEN "Negociar"
        ELSE "Rechazar"

\* the ResultadoRiesgo of evaluar with the scores of its five categories
ResultadoRiesgo(scores_categorias, red_flags) ==
    [score_total |-> _calcular_score_total(scores_categorias, red_flags),
     scores_categorias |-> scores_categorias,
     red_flags |-> red_flags,
     accion_sugerida |->
         _generar_recomendacion(
             _calcular_score_total(scores_categorias, red_flags), red_flags)]

\* RiskAssessor.evaluar(contrato, resultado_financiero)
evaluar(c, r) ==
    [error |-> "",
     valor |-> ResultadoRiesgo(<<_evaluar_riesgo_liquidez(c, r),
                                 _evaluar_riesgo_tasa(c, r),
                                 _evaluar_riesgo_operativo(c),
                                 _evaluar_riesgo_legal(c),
                                 _evaluar_riesgo_prepago(c)>>,
                               _identificar_red_flags(c, r))]

\* the contracts handed to the assessor: the payment structure, the rate
\* terms, the guarantees, the covenants, the default triggers, the
\* prepayment clause and the opening fee, from lenient to harsh
ContratosRiesgo ==
    {[ContratoParseado EXCEPT
         !.monto_principal = 100 * Unidad,
         !.es_bullet = pagos.es_bullet,
         !.periodo_gracia_meses = pagos.gracia,
         !.frecuencia_pago = pagos.frecuencia,
         !.plazo_meses = pagos.plazo,
         !.tipo_tasa = tasa.tipo, !.cap = tasa.cap, !.floor = tasa.floor,
         !.spread_bps = tasa.spread,
         !.garantias = garantias,
         !.tipo_garantia_general = _determinar_tipo_garantia(garantias),
         !.covenants = covenants,
         !.clausulas_incumplimiento = triggers.clausulas,
         !.tiene_cross_default = triggers.cross,
         !.prepago = prepago,
         !.comisiones = costes.comisiones,
         !.jurisdiccion = costes.jurisdiccion] :
     pagos \in {[es_bullet |-> FALSE, gracia |-> 0, frecuencia |-> "mensual",
                 plazo |-> 61],
                [es_bullet |-> FALSE, gracia |-> 2,
                 frecuencia |-> "trimestral", plazo |-> 12],
                [es_bullet |-> TRUE, gracia |-> 12, frecuencia |-> "anual",
                 plazo |-> 3]},
     tasa \in {[tipo |-> "fija", cap |-> <<>>, floor |-> <<>>,
                spread |-> <<>>],
               [tipo |-> "variable", cap |-> <<700>>, floor |-> <<>>,
                spread |-> <<150 * 100>>],
               [tipo |-> "variable", cap |-> <<>>, floor |-> <<300>>,
                spread |-> <<450 * 100>>]},
     garantias \in {<<>>,
                    <<Garantia("hipoteca", "1er grado", "real")>>,
                    <<Garantia("hipoteca", "1er grado", "real"),
                      Garantia("hipoteca", "2º grado", "real"),
                      Garantia("prenda", "acciones", "real"),
                      Garantia("aval", "Aval personal solidario",
                               "personal")>>},
     covenants \in {<<>>,
                    <<Covenant("DSCR", 125, ">="),
                      Covenant("Deuda/EBITDA", 350, "<="),
                      Covenant("Negative Pledge", 0, "")>>,
                    <<Covenant("DSCR", 150, ">="),
                      Covenant("Deuda/EBITDA", 250, "<="),
                      Covenant("Negative Pledge", 0, ""),
                      Covenant("DSCR", 100, ">="),
                      Covenant("Deuda/EBITDA", 400, "<=")>>},
     triggers \in {[clausulas |-> <<>>, cross |-> FALSE],
                   [clausulas |-> [i \in 1..6 |->
                                       ClausulaIncumplimiento("impago")],
                    cross |-> TRUE]},
     prepago \in {<<>>, <<ClausulaPrepago(TRUE, 0, 0)>>,
                  <<ClausulaPrepago(TRUE, 300, 24)>>,
                  <<ClausulaPrepago(FALSE, 300, 0)>>},
     costes \in {[comisiones |-> <<>>, jurisdiccion |-> "Madrid"],
                 [comisiones |-> <<Comision("apertura", 300, TRUE)>>,
                  jurisdiccion |-> ""]}}

\* the financial results handed to the assessor: a first payment of 0, 4
\* or 10, a rate 2 points under, 2 over or 4 over the market, a CAT of 0
\* or 31 %
ResultadosRiesgo ==
    {[ResultadoNulo EXCEPT !.cuota_mensual = cuota,
                           !.diferencia_vs_mercado = diferencia,
                           !.costo_anual_total = cat] :
     cuota \in {0, 400, 1000}, diferencia \in {0 - 200, 200, 400},
     cat \in {0, 31 * 100}}

\* assessor.evaluar(contrato, resultado)
LlamarEvaluar ==
    /\ pc = "contrato"
    /\ devuelto.op # "evaluar"
    /\ Anotar("evaluar", <<>>, evaluar(contrato, resultado), "")
    /\ UNCHANGED <<pc, reloj, fallo_lectura, texto_leido, contrato,
                   resultado, excepcion, market_rates, tir_origen>>

InitRiesgo ==
    /\ pc = "contrato"
    /\ reloj = 0
    /\ fallo_lectura = FALSE
    /\ texto_leido = <<>>
    /\ contrato \in ContratosRiesgo
    /\ resultado \in ResultadosRiesgo
    /\ excepcion = ""
    /\ market_rates = MercadoVacio
    /\ tir_origen = ""
    /\ devuelto = NadaDevuelto
    /\ previo = <<>>

SpecRiesgo == InitRiesgo /\ [][LlamarEvaluar]_vars

\* ---------------------------------------------------------------- claims
Tabla == resultado.tabla_amortizacion

Filas == 1..Len(Tabla)

\* C1: the schedule is the one of exactly one policy, chosen in the
\* priority bullet flag, then grace period > 0, then standard annuity; a
\* failed calculation is the failure of that same policy.
PoliticaPorPrioridad ==
    IF contrato.es_bullet THEN _amortizacion_bullet(contrato, reloj)
    ELSE IF contrato.periodo_gracia_meses > 0
    THEN _amortizacion_con_gracia(contrato, reloj)
    ELSE _amortizacion_francesa(contrato, reloj)

C1_PoliticaPorPrioridad ==
    /\ pc = "calculado" => Tabla = PoliticaPorPrioridad.tabla
    /\ pc = "fallo" => /\ excepcion # ""
                       /\ excepcion = PoliticaPorPrioridad.error

\* a bullet contract with a grace period, whose bullet schedule differs
\* from both other policies' schedules
C1_Witness ==
    /\ pc = "calculado"
    /\ contrato.es_bullet
    /\ contrato.periodo_gracia_meses > 0
    /\ Tabla # <<>>
    /\ Tabla # _amortizacion_con_gracia(contrato, reloj).tabla
    /\ Tabla # _amortizacion_francesa(contrato, reloj).tabla

\* C2 (as claimed): in every schedule each saldo is >= 0, saldo never
\* increases from one row to the next, and the last row's saldo is 0
\* (within one cent).
C2_SaldoDecreceHastaCero ==
    pc = "calculado" =>
        /\ \A i \in Filas : Tabla[i].saldo >= 0
        /\ \A i \in Filas : i > 1 => Tabla[i].saldo <= Tabla[i - 1].saldo
        /\ Tabla # <<>> => Tabla[Len(Tabla)].saldo <= 1

\* C3: in a bullet schedule every row but the last has capital 0 and the
\* starting principal as its balance; the last row repays the whole
\* principal, its payment is that capital plus the period's interest, and
\* its balance is 0.
C3_Bullet ==
    (pc = "calculado" /\ contrato.es_bullet) =>
        LET monto == contrato.monto_principal
            interes == Interes(monto, contrato.tasa_nominal)
            n == contrato.plazo_meses
        IN  /\ Len(Tabla) = n
            /\ \A i \in Filas :
                  /\ Tabla[i].interes = Round2(interes)
                  /\ i < n => /\ Tabla[i].capital = 0
                              /\ Tabla[i].saldo = Round2(monto)
                              /\ Tabla[i].cuota = Tabla[i].interes
                  /\ i = n => /\ Tabla[i].capital = Round2(monto)
                              /\ Tabla[i].cuota = Round2(monto + interes)
                              /\ Tabla[i].saldo = 0

C3_Witness ==
    /\ pc = "calculado"
    /\ contrato.es_bullet
    /\ contrato.plazo_meses >= 3
    /\ contrato.monto_principal > 0
    /\ contrato.tasa_nominal > 0
    /\ Tabla[Len(Tabla)].capital > 0
    /\ Tabla[Len(Tabla)].saldo = 0

\* C4: in a graduated-with-grace schedule each of the first
\* periodo_gracia_meses rows has capital 0, a payment equal to its interest
\* and the starting principal as its balance; from row grace + 1 on the
\* fixed payment is the annuity payment of that balance over the remaining
\* term - grace periods.
ContratoTrasGracia ==
    [contrato EXCEPT
        !.plazo_meses = contrato.plazo_meses - contrato.periodo_gracia_meses,
        !.periodo_gracia_meses = 0]

C4_Gracia ==
    (pc = "calculado" /\ ~contrato.es_bullet
                      /\ contrato.periodo_gracia_meses > 0) =>
        LET g == contrato.periodo_gracia_meses
        IN  /\ Len(Tabla) >= g
            /\ \A i \in Filas :
                  /\ i <= g => /\ Tabla[i].capital = 0
                               /\ Tabla[i].cuota = Tabla[i].interes
                               /\ Tabla[i].saldo =
                                      Round2(contrato.monto_principal)
                  /\ i > g =>
                       Tabla[i].cuota =
                           _amortizacion_francesa(ContratoTrasGracia, reloj)
                               .tabla[1].cuota

C4_Witness ==
    /\ pc = "calculado"
    /\ ~contrato.es_bullet
    /\ contrato.periodo_gracia_meses = 2
    /\ contrato.plazo_meses = 4
    /\ contrato.monto_principal > 0
    /\ contrato.tasa_nominal > 0
    /\ Tabla[2].capital = 0
    /\ Tabla[3].capital > 0

\* C5 (as claimed): in every row cuota = capital + interes on the rounded
\* fields.
C5_CuotaExacta ==
    pc = "calculado" =>
        \A i \in Filas : Tabla[i].cuota = Tabla[i].capital + Tabla[i].interes

\* C5 (amended): in every row cuota differs from capital + interes by at
\* most one cent, and the maintenance fee is reported only in
\* comision_mantenimiento: cuota, capital and interes are those of the same
\* contract without fees.
TablaSinComisiones ==
    _generar_tabla_amortizacion([contrato EXCEPT !.comisiones = <<>>],
                                reloj).tabla

C5_CuotaConTolerancia ==
    pc = "calculado" =>
        /\ Len(TablaSinComisiones) = Len(Tabla)
        /\ \A i \in Filas :
              /\ Abs(Tabla[i].cuota - (Tabla[i].capital + Tabla[i].interes))
                     <= 1
              /\ Tabla[i].cuota = TablaSinComisiones[i].cuota
              /\ Tabla[i].capital = TablaSinComisiones[i].capital
              /\ Tabla[i].interes = TablaSinComisiones[i].interes
              /\ TablaSinComisiones[i].comision_mantenimiento = 0

\* a row that carries a maintenance fee and whose rounded fields are one
\* cent apart
C5_Witness ==
    /\ pc = "calculado"
    /\ \E i \in Filas :
          /\ Tabla[i].comision_mantenimiento > 0
          /\ Tabla[i].cuota # Tabla[i].capital + Tabla[i].interes

\* C6 (as claimed): a contract of term n gets exactly n rows, numbered
\* 1..n, under every policy and for any grace period.
C6_FilasIgualPlazo ==
    pc = "calculado" =>
        /\ Len(Tabla) = contrato.plazo_meses
        /\ \A i \in Filas : Tabla[i].periodo = i

\* C7 (as claimed): calcular never raises.
C7_NuncaLanza == pc # "fallo" /\ excepcion = ""

\* C8: when no text can be read from the input (a PDF without text, or a
\* reader that fails before delivering any), parsear_contrato returns the
\* all-default contract with the single warning "No se pudo extraer texto
\* del PDF" and confianza_extraccion 0, and raises nothing: no extractor and
\* no scoring has touched the contract.
C8_SinTexto ==
    (pc = "parseado" /\ texto_leido = <<>>) =>
        /\ contrato =
               [ContratoParseado EXCEPT
                   !.advertencias = <<"No se pudo extraer texto del PDF">>]
        /\ contrato.confianza_extraccion = 0
        /\ Len(contrato.advertencias) >= 1
        /\ excepcion = ""

\* the reader failed and nothing had been read
C8_Witness ==
    /\ pc = "parseado"
    /\ fallo_lectura
    /\ texto_leido = <<>>
    /\ contrato.advertencias = <<"No se pudo extraer texto del PDF">>
    /\ contrato.confianza_extraccion = 0

\* C9: for a contract assembled from non-empty text, confianza_extraccion
\* is 100 minus 20 (principal 0), 15 (rate 0 and type fixed), 15 (term 0),
\* 5 (no guarantees), 5 (no fees), 5 (no lender), 5 (no borrower), clamped
\* to 0..100; a variable rate of 0 costs nothing.
DeduccionesAplicadas ==
    <<IF contrato.monto_principal = 0 THEN 20 ELSE 0,
      IF contrato.tasa_nominal = 0 /\ contrato.tipo_tasa = "fija"
      THEN 15 ELSE 0,
      IF contrato.plazo_meses = 0 THEN 15 ELSE 0,
      IF contrato.garantias = <<>> THEN 5 ELSE 0,
      IF contrato.comisiones = <<>> THEN 5 ELSE 0,
      IF contrato.prestamista = "" THEN 5 ELSE 0,
      IF contrato.prestatario = "" THEN 5 ELSE 0>>

RECURSIVE Suma(_)
Suma(s) == IF s = <<>> THEN 0 ELSE Head(s) + Suma(Tail(s))

C9_Confianza ==
    (pc = "parseado" /\ texto_leido # <<>>) =>
        /\ contrato.confianza_extraccion =
               Max(0, Min(100, 100 - Suma(DeduccionesAplicadas)))
        /\ (contrato.tipo_tasa = "variable" /\ contrato.tasa_nominal = 0)
               => DeduccionesAplicadas[2] = 0

\* a variable-rate contract with rate 0, principal and term extracted:
\* only the four 5-point deductions apply
C9_Witness ==
    /\ pc = "parseado"
    /\ texto_leido # <<>>
    /\ contrato.tipo_tasa = "variable"
    /\ contrato.tasa_nominal = 0
    /\ contrato.monto_principal > 0
    /\ contrato.plazo_meses > 0
    /\ contrato.confianza_extraccion = 80

\* C10 (as claimed): the scorer appends one warning per deduction it
\* applies, so the warnings of a contract assembled from non-empty text are
\* as many as the deductions applied.
C10_UnaAdvertenciaPorDeduccion ==
    (pc = "parseado" /\ texto_leido # <<>>) =>
        Len(contrato.advertencias) =
            Cardinality({i \in 1..Len(DeduccionesAplicadas) :
                            DeduccionesAplicadas[i] > 0})

\* C11 (as claimed): when np.irr fails _calcular_tir returns the effective
\* annual rate, and the result tells the caller which of the two the value
\* reported as tir is: two results of calcular on the same contract, one
\* carrying a solved IRR and one the substituted rate, are never equal.
C11_RespaldoObservable ==
    /\ (devuelto.op = "calcular" /\ devuelto.origen = "tea")
           => devuelto.valor.tir = devuelto.valor.tasa_efectiva_anual
    /\ (/\ devuelto.op = "calcular"
        /\ previo # <<>>
        /\ devuelto.origen # ""
        /\ previo[1].origen # ""
        /\ devuelto.origen # previo[1].origen)
           => devuelto.valor # previo[1].valor

\* the band of the loaded table for the contract's size and term tiers,
\* <<>> where the table has none (the tables of Mercados hold at most the
\* band of small companies over the short term)
BandaCargada ==
    IF contrato.plazo_meses <= 12
       /\ market_rates \in {MercadoCon(banda) : banda \in Bandas}
    THEN <<market_rates.tasas_referencia.por_tipo_empresa.pyme.corto_plazo>>
    ELSE <<>>

BandaCompleta == BandaCargada # <<>> /\ DOMAIN BandaCargada[1] = CamposBanda

\* C12: _comparar_con_mercado never raises; when the table is empty, or
\* the band of the contract's tiers or one of its promedio / min / max
\* entries is absent, it returns delta 0, percentile 50 and a "no data"
\* label.
C12_ComparacionNeutral ==
    devuelto.op = "comparar" =>
        /\ devuelto.error = ""
        /\ ~BandaCompleta =>
               /\ devuelto.valor.diferencia = 0
               /\ devuelto.valor.percentil = 50
               /\ devuelto.valor.evaluacion
                      \in {"Sin datos de mercado disponibles",
                           "Sin datos de mercado para este perfil"}

\* a comparison against a band that lacks only its min entry
C12_Witness ==
    /\ devuelto.op = "comparar"
    /\ BandaCargada # <<>>
    /\ DOMAIN BandaCargada[1] = {"promedio", "max"}
    /\ devuelto.valor.percentil = 50

\* C13 (as claimed): with a complete band the percentile is 10 for a rate
\* at or below min, 90 for a rate at or above max, and otherwise the linear
\* interpolation of the rate's position in [min, max] onto [10, 90]; no
\* band makes the computation divide by zero.
C13_PercentilInterpolado ==
    (devuelto.op = "comparar" /\ BandaCompleta) =>
        LET tea == devuelto.args[1]
            tasa_min == BandaCargada[1].min
            tasa_max == BandaCargada[1].max
            percentil == devuelto.valor.percentil
        IN  /\ devuelto.error = ""
            /\ tea <= tasa_min => percentil = 10
            /\ tea >= tasa_max => percentil = 90
            /\ (tea > tasa_min /\ tea < tasa_max) =>
                   (percentil - 10) * (tasa_max - tasa_min)
                       = 80 * (tea - tasa_min)

\* C13 (amended): with a complete band the percentile is 10 for a rate at
\* or below min; failing that, 90 for a rate at or above max; and otherwise
\* 10 plus the integer part of 80 times the rate's position in [min, max].
\* It is always within [10, 90] and no band, min = max and min > max
\* included, makes the computation divide by zero.
C13_PercentilTruncado ==
    (devuelto.op = "comparar" /\ BandaCompleta) =>
        LET tea == devuelto.args[1]
            tasa_min == BandaCargada[1].min
            tasa_max == BandaCargada[1].max
            percentil == devuelto.valor.percentil
        IN  /\ devuelto.error = ""
            /\ percentil \in 10..90
            /\ tea <= tasa_min => percentil = 10
            /\ (tea > tasa_min /\ tea >= tasa_max) => percentil = 90
            /\ (tea > tasa_min /\ tea < tasa_max) =>
                   /\ (percentil - 10) * (tasa_max - tasa_min)
                          <= 80 * (tea - tasa_min)
                   /\ 80 * (tea - tasa_min)
                          < (percentil - 9) * (tasa_max - tasa_min)

\* a rate of 12.5 % inside the band 8 % - 14 %: percentile 70
C13_Witness ==
    /\ devuelto.op = "comparar"
    /\ BandaCompleta
    /\ BandaCargada[1].min = 800
    /\ BandaCargada[1].max = 1400
    /\ devuelto.args = <<1250>>
    /\ devuelto.valor.percentil = 70

\* clamp(tasa, floor, cap), a bound applied exactly when it is present
Clamp(tasa, floor, cap) ==
    LET topada == IF cap # <<>> THEN Min(tasa, cap[1]) ELSE tasa
    IN  IF floor # <<>> THEN Max(topada, floor[1]) ELSE topada

\* the scenarios of the sensitivity analysis last returned
EscenariosDevueltos ==
    IF devuelto.op = "sensibilidad" /\ devuelto.valor # <<>>
    THEN devuelto.valor[1].escenarios
    ELSE <<>>

\* C14 (as claimed): for every scenario shift the resulting rate is
\* clamp(nominal + shift, floor, cap), each bound applied exactly when it is
\* present on the contract: with a cap the rate never exceeds it, with a
\* floor it is never below it.
C14_TasaAcotada ==
    \A k \in DOMAIN EscenariosDevueltos :
        LET tasa == EscenariosDevueltos[k].tasa_resultante
        IN  /\ contrato.cap # <<>> => tasa <= contrato.cap[1]
            /\ contrato.floor # <<>> => tasa >= contrato.floor[1]
            /\ tasa = Clamp(contrato.tasa_nominal + Escenarios[k],
                            contrato.floor, contrato.cap)

\* C15 (as claimed): impacto_vs_base of each scenario is its total interest
\* minus the total interest of the zero-shift scenario, so the zero-shift
\* scenario reports impacto_vs_base = 0 whatever the rate, cap and floor.
C15_ImpactoContraBase ==
    \A k \in DOMAIN EscenariosDevueltos :
        /\ Escenarios[k] = 0 => EscenariosDevueltos[k].impacto_vs_base = 0
        /\ \A j \in DOMAIN EscenariosDevueltos :
               Escenarios[j] = 0 =>
                   EscenariosDevueltos[k].impacto_vs_base
                       = EscenariosDevueltos[k].total_intereses
                         - EscenariosDevueltos[j].total_intereses

\* the result of the prepayment simulation last returned, its arguments,
\* and whether the target period is inside the clause's window
PrepagoDevuelto == devuelto.op = "prepago" /\ devuelto.valor # <<>>

EnVentana ==
    /\ contrato.prepago # <<>>
    /\ devuelto.args[1] <= contrato.prepago[1].periodo_penalizacion_meses

\* C16 (as claimed): penalizacion is monto_prepago x penalty percentage
\* / 100 exactly when there is a clause and mes_prepago is within its
\* window, 0 in every other case, and beneficio_neto is ahorro_intereses
\* - penalizacion.
C16_PenalizacionExacta ==
    PrepagoDevuelto =>
        /\ EnVentana =>
               devuelto.valor[1].penalizacion * 100 * PorCiento
                   = devuelto.args[2] * contrato.prepago[1].penalizacion
        /\ ~EnVentana => devuelto.valor[1].penalizacion = 0
        /\ devuelto.valor[1].beneficio_neto
               = devuelto.valor[1].ahorro_intereses
                 - devuelto.valor[1].penalizacion

\* C16 (amended): the three amounts are reported rounded to 2 decimals.
\* penalizacion is monto_prepago x penalty percentage / 100 to the nearest
\* cent exactly when there is a clause and mes_prepago is within its window,
\* 0 in every other case; beneficio_neto is the rounded difference of the
\* unrounded amounts, within one cent of ahorro_intereses - penalizacion.
C16_PenalizacionRedondeada ==
    PrepagoDevuelto =>
        /\ EnVentana =>
               Abs(devuelto.valor[1].penalizacion * 100 * PorCiento
                   - devuelto.args[2] * contrato.prepago[1].penalizacion)
                   <= 50 * PorCiento
        /\ ~EnVentana => devuelto.valor[1].penalizacion = 0
        /\ Abs(devuelto.valor[1].beneficio_neto
               - (devuelto.valor[1].ahorro_intereses
                  - devuelto.valor[1].penalizacion)) <= 1

\* 33.33 prepaid inside the window at 2.5 %: a penalty of 0.83 and a net
\* benefit one cent off the difference of the reported amounts
C16_Witness ==
    /\ PrepagoDevuelto
    /\ EnVentana
    /\ devuelto.args[2] = 3333 * 100
    /\ devuelto.valor[1].penalizacion = 83
    /\ devuelto.valor[1].beneficio_neto
           # devuelto.valor[1].ahorro_intereses
             - devuelto.valor[1].penalizacion

\* the interest of the contract's original schedule from row desde on
InteresesDesde(desde) ==
    SumaCampo(_generar_tabla_amortizacion(contrato, 0).tabla, "interes")
    - SumaCampo(SubSeq(_generar_tabla_amortizacion(contrato, 0).tabla, 1,
                       Min(desde - 1,
                           Len(_generar_tabla_amortizacion(contrato,
                                                           0).tabla))),
                "interes")

\* C17 (as claimed): the balance after the extra payment is floored at 0
\* in the interest-savings estimate too, so for an extra amount above the
\* outstanding balance the estimated remaining interest is 0 and the
\* reported savings never exceed the interest of the original schedule from
\* the target period on.
C17_AhorroAcotado ==
    PrepagoDevuelto =>
        devuelto.valor[1].ahorro_intereses <= InteresesDesde(devuelto.args[1])

\* C18 (as claimed): two invocations of the same operation with the same
\* arguments on the same contract, at any two moments, return equal results
\* in every field of every row, the row dates included (np.irr behaving the
\* same way in both).
C18_Determinista ==
    (previo # <<>> /\ previo[1].origen = devuelto.origen) =>
        /\ previo[1].error = devuelto.error
        /\ previo[1].valor = devuelto.valor

\* C19: no call to calcular, _analisis_sensibilidad or
\* calcular_escenario_prepago changes the input contract, the loaded market
\* table, the result of the call before it or, unless it is a call to
\* calcular handing the caller a new one, the ResultadoCalculo the caller
\* holds.
C19_Marco ==
    [][/\ contrato' = contrato
       /\ market_rates' = market_rates
       /\ previo' # <<>> => previo'[1] = devuelto
       /\ devuelto'.op # "calcular" => resultado' = resultado]_vars

\* a sensitivity analysis whose last scenario runs at another rate than the
\* contract's, made while the caller holds a result of calcular
C19_Witness ==
    /\ devuelto.op = "sensibilidad"
    /\ devuelto.valor # <<>>
    /\ devuelto.valor[1].escenarios[Len(Escenarios)].tasa_resultante
           # contrato.tasa_nominal
    /\ resultado # ResultadoNulo
    /\ resultado.tabla_amortizacion # <<>>

\* C20 (as claimed): the standard-annuity schedule uses the periodic rate
\* nominal rate / 100 / periods-per-year of the contract's payment
\* frequency and the term counted in such periods, the periods-per-year
\* being the one the effective annual rate is computed with: the schedule
\* has plazo_meses x periods-per-year / 12 rows and its first row's interest
\* is the principal at that periodic rate, to the cent.
C20_PeriodosDeLaFrecuencia ==
    (/\ devuelto.op = "calcular"
     /\ devuelto.error = ""
     /\ ~contrato.es_bullet
     /\ contrato.periodo_gracia_meses = 0
     /\ contrato.frecuencia_pago
            \in {"mensual", "trimestral", "semestral", "anual"}) =>
        LET periodos == PeriodosPorAno(contrato.frecuencia_pago)
            tabla == devuelto.valor.tabla_amortizacion
        IN  /\ devuelto.valor.tasa_efectiva_anual
                   = TasaEfectiva(contrato.tasa_nominal, periodos)
            /\ Len(tabla) * 12 = contrato.plazo_meses * periodos
            /\ tabla # <<>> =>
                   2 * Abs(tabla[1].interes * periodos * PorCiento
                           - (contrato.monto_principal \div 100)
                             * contrato.tasa_nominal)
                       <= periodos * PorCiento

\* the entries of a kind in a fee list
DeTipo(comisiones, tipo) ==
    SelectSeq(comisiones, LAMBDA comision : comision.tipo = tipo)

\* the fee total the schedule accounts for, in cents: the origination fee
\* once on the principal, the insurance fee once, the maintenance column
\* once
ComisionesUnaVez(c, tabla) ==
    LET apertura == DeTipo(c.comisiones, "apertura")
        seguro == DeTipo(c.comisiones, "seguro")
        mantenimiento == DeTipo(c.comisiones, "mantenimiento")
    IN  Round2((IF apertura = <<>> THEN 0
                ELSE (c.monto_principal * apertura[1].valor) \div PorCiento)
               + (IF seguro = <<>> THEN 0 ELSE seguro[1].valor)
               + (IF mantenimiento = <<>> THEN 0
                  ELSE 100 * SumaCampo(tabla, "comision_mantenimiento")))

C22_PrimerTramo ==
    (pc = "parseado" /\ contrato.tramos # <<>>)
    => LET primer_tramo == contrato.tramos[1]
       IN  /\ contrato.monto_principal = primer_tramo.monto
           /\ contrato.moneda = primer_tramo.moneda
           /\ contrato.tasa_nominal = primer_tramo.tasa
           /\ contrato.tipo_tasa = primer_tramo.tipo_tasa
           /\ contrato.plazo_meses = primer_tramo.plazo_meses
           /\ contrato.frecuencia_pago = primer_tramo.frecuencia_pago
           /\ contrato.periodo_gracia_meses = primer_tramo.periodo_gracia_meses
           /\ contrato.indice_referencia = primer_tramo.indice_referencia
           /\ contrato.spread_bps = primer_tramo.spread
           /\ contrato.cap = primer_tramo.cap
           /\ contrato.floor = primer_tramo.floor

\* the tranche headings of the text read, in text order
Encabezados ==
    [i \in 1..Len(SelectSeq(texto_leido,
                            LAMBDA cl : Catalogo[cl].tramo # <<>>)) |->
        Catalogo[SelectSeq(texto_leido,
                           LAMBDA cl : Catalogo[cl].tramo # <<>>)[i]].tramo[1]]

\* a sequence without the later occurrences of its elements
RECURSIVE Distintos(_)
Distintos(nombres) ==
    IF nombres = <<>> THEN <<>>
    ELSE <<Head(nombres)>>
         \o Distintos(SelectSeq(Tail(nombres),
                                LAMBDA nombre : nombre # Head(nombres)))

\* C23: a text with two or more distinct tranche headings gives exactly one
\* Tranche per distinct heading, in text order; a text with fewer than two
\* distinct headings (the same heading repeated included) is a single
\* section and its contract has no tranches.
C23_UnTramoPorEncabezado ==
    pc = "parseado"
    => IF Len(Distintos(Encabezados)) >= 2
       THEN [i \in 1..Len(contrato.tramos) |-> contrato.tramos[i].nombre]
                = Distintos(Encabezados)
       ELSE contrato.tramos = <<>>

\* C24: a text is classified variable exactly when a variable signal
\* matches and no fixed signal does, and index, spread, cap and floor are
\* extracted only for a text classified variable: a contract classified
\* fixed has all four absent.
C24_SoloVariableExtrae ==
    (pc = "parseado" /\ texto_leido # <<>>)
    => /\ (contrato.tipo_tasa = "variable")
              = (Alguna(texto_leido, "variable")
                 /\ ~Alguna(texto_leido, "fija"))
       /\ contrato.tipo_tasa \in {"fija", "variable"}
       /\ contrato.tipo_tasa = "fija"
          => /\ contrato.indice_referencia = <<>>
             /\ contrato.spread_bps = <<>>
             /\ contrato.cap = <<>>
             /\ contrato.floor = <<>>

\* C25: every contract the assembler produces with a variable rate and
\* both bounds present has cap >= floor.
C25_CapSobreFloor ==
    (/\ pc = "parseado"
     /\ contrato.tipo_tasa = "variable"
     /\ contrato.cap # <<>>
     /\ contrato.floor # <<>>)
    => contrato.cap[1] >= contrato.floor[1]

\* C26: the capital components of a standard-annuity schedule at a rate
\* above 0 add up to the starting principal within 0.05 currency units,
\* for every term length.
C26_CapitalSumaPrincipal ==
    (devuelto.op = "tabla" /\ contrato.tasa_nominal > 0)
    => Abs(SumaCampo(devuelto.valor, "capital")
           - contrato.monto_principal \div 100) <= 5

\* C27: for every parsed contract with monto_principal > 0 and
\* plazo_meses > 0, calcular returns a non-empty amortization table and a
\* costo_anual_total strictly greater than 0.
C27_TablaYCostoPositivos ==
    (/\ pc \in {"calculado", "fallo"}
     /\ contrato.texto_original # <<>>
     /\ contrato.monto_principal > 0
     /\ contrato.plazo_meses > 0)
    => /\ pc = "calculado"
       /\ resultado.tabla_amortizacion # <<>>
       /\ resultado.costo_anual_total > 0

\* C28: for every contract and financial result, evaluar returns a
\* score_total within 0..100 and an accion_sugerida that is one of
\* "Aceptar", "Negociar", "Rechazar", whatever the category scores and the
\* red flags raised.
C28_ScoreYAccion ==
    (devuelto.op = "evaluar")
    => /\ devuelto.error = ""
       /\ devuelto.valor.score_total \in 0..100
       /\ devuelto.valor.accion_sugerida
              \in {"Aceptar", "Negociar", "Rechazar"}

\* all eight red flags raised: their impacts take the weighted mean of the
\* categories below zero and the score returned is 0
C28_Testigo ==
    /\ devuelto.op = "evaluar"
    /\ Len(devuelto.valor.red_flags) = 8
    /\ devuelto.valor.score_total = 0
    /\ devuelto.valor.accion_sugerida = "Rechazar"

\* C29: the top-line metrics of every result calcular returns match its
\* schedule: total_intereses is the sum of the rows' interes, cuota_mensual
\* is the first row's cuota (0 for an empty schedule), and
\* costo_total_financiamiento = monto_principal + total_intereses
\* + total_comisiones.
C29_MetricasSegunTabla ==
    (devuelto.op = "calcular" /\ devuelto.error = "")
    => LET r == devuelto.valor
           tabla == r.tabla_amortizacion
       IN  /\ r.total_intereses = SumaCampo(tabla, "interes")
           /\ r.cuota_mensual = IF tabla = <<>> THEN 0 ELSE tabla[1].cuota
           /\ r.costo_total_financiamiento =
                  contrato.monto_principal \div 100 + r.total_intereses
                  + r.total_comisiones

\* a result with a schedule, interest and fees
C29_Testigo ==
    /\ devuelto.op = "calcular"
    /\ devuelto.error = ""
    /\ Len(devuelto.valor.tabla_amortizacion) > 1
    /\ devuelto.valor.total_intereses > 0
    /\ devuelto.valor.total_comisiones > 0

\* the contract that differs from c only in prepago.permitido
ContratoGemelo(c) ==
    [c EXCEPT !.prepago = <<[c.prepago[1] EXCEPT !.permitido = ~@]>>]

\* the unrounded savings and penalty of the simulation last returned
AhorroCalculado ==
    LET tabla == _generar_tabla_amortizacion(contrato, reloj).tabla
    IN  AhorroIntereses(contrato, tabla, devuelto.args[1],
                        SaldoReducido(tabla, devuelto.args[1],
                                      devuelto.args[2]))

PenalizacionCalculada ==
    Penalizacion(contrato.prepago, devuelto.args[1], devuelto.args[2])

\* C30: the output of calcular_escenario_prepago does not depend on
\* prepago.permitido: the contract that differs only in that flag yields
\* the same savings, penalty, net benefit and recommendation for the same
\* target period and extra amount; and the recommendation is "Prepago
\* recomendado" exactly when ahorro_intereses > penalizacion, the amounts
\* the simulation computed.
C30_AjenoAPermitido ==
    PrepagoDevuelto
    => /\ contrato.prepago # <<>>
          => calcular_escenario_prepago(ContratoGemelo(contrato),
                                        devuelto.args[1], devuelto.args[2],
                                        reloj).valor = devuelto.valor
       /\ (devuelto.valor[1].recomendacion = "Prepago recomendado")
          <=> EsPositivo(RestaMixto(AhorroCalculado, PenalizacionCalculada))
       /\ devuelto.valor[1].recomendacion
              \in {"Prepago recomendado", "Evaluar conveniencia"}

\* a penalty charged under a clause that permits prepayment, inside its
\* window, with the prepayment recommended
C30_Testigo ==
    /\ PrepagoDevuelto
    /\ EnVentana
    /\ contrato.prepago[1].permitido
    /\ devuelto.valor[1].penalizacion > 0
    /\ devuelto.valor[1].recomendacion = "Prepago recomendado"

====
